---- MODULE Spec2Model ----
(***************************************************************************)
(* A model of jps::shared_ptr / jps::weak_ptr / jps::atomic_shared_ptr     *)
(* (src/shared_ptr.h).  Every atomic access to a cell or to a control      *)
(* block is one step of the thread that performs it; the thread-local work *)
(* between two atomic accesses belongs to the step of the preceding access.*)
(***************************************************************************)
EXTENDS Integers, FiniteSets, Sequences, TLC

(***************************************************************************)
(* Bounds of the model.                                                    *)
(***************************************************************************)
\* threads that operate on the shared cell
NumThreads == 2
\* addresses at which a control block can be allocated
NumBlocks == 3
\* operations on the cell (load, store, exchange, compare_exchange) that
\* may be started in one behaviour
MaxCellOps == 2
\* operations on a counter that may be started in one behaviour
MaxCounterOps == 2
\* conversions of a shareable to a shared_ptr in one behaviour
MaxConversions == 2

(***************************************************************************)
(* Program constants.                                                      *)
(***************************************************************************)
\* 1 << 14, the local counter at which _enter normalizes
NormalizeThreshold == 16384

Threads == 1..NumThreads
Blocks == 1..NumBlocks
NULL == 0

(***************************************************************************)
(* paired_counter: c1 is the signed 32-bit lane (high half of the word),   *)
(* c2 the unsigned 32-bit lane (low half).  c2 is kept as the two's        *)
(* complement image of its 32 bits (u - 2^32 for u >= 2^31), so that the   *)
(* lane after 0 - 1 is written -1 and stands for 0xFFFFFFFF.               *)
(***************************************************************************)
PC(a, b) == [c1 |-> a, c2 |-> b]

\* unsigned comparison of two 32-bit images
U32Less(x, y) == IF (x >= 0) = (y >= 0) THEN x < y ELSE x >= 0

\* std::atomic<uint64_t>::fetch_add on the word: the carry out of the low
\* lane (c2) enters the high lane (c1)
PCWordAdd(a, b) ==
    LET s2 == a.c2 + b.c2
        carry == IF U32Less(s2, a.c2) THEN 1 ELSE 0
    IN  PC(a.c1 + b.c1 + carry, s2)

\* (a fetch_sub that leaves the high lane alone)
PCWordSubLowLane(a, b) == PC(a.c1, a.c2 - b.c2)

\* std::atomic<uint64_t>::fetch_sub on the word: the borrow of the low
\* lane (c2) is taken from the high lane (c1)
PCWordSub(a, b) ==
    LET borrow == IF U32Less(a.c2, b.c2) THEN 1 ELSE 0
    IN  PC(a.c1 - b.c1 - borrow, a.c2 - b.c2)

(***************************************************************************)
(* counted_ptr: a signed 16-bit counter above a 48-bit pointer.            *)
(***************************************************************************)
CP(c, p) == [ctr |-> c, ptr |-> p]
NullCP == CP(0, NULL)

\* the int16_t value of the counter lane after an addition
Wrap16(x) == ((x + 32768) % 65536) - 32768

\* atomic_counted_ptr::fetch_add: only the counter lane changes
\* (an addition that lets the counter leave its lane)
CPFetchAddNoWrap(w, n) == CP(w.ctr + n, w.ptr)
CPFetchAdd(w, n) == CP(Wrap16(w.ctr + n), w.ptr)

(***************************************************************************)
(* Literals of the protocol.                                               *)
(***************************************************************************)
\* the initial strong counter of a header
\* (a header that starts without a reference)
InitialStrongNone == PC(0, 0)
InitialStrong == PC(0, 1)
\* the initial weak counter of a header
InitialWeak == PC(0, 0)
\* acquire(): one strong reference
\* (an acquire that takes nothing)
AcquireNone == PC(0, 0)
AcquireOne == PC(0, 1)
\* the credit a reader takes after its enter
\* (a credit in the observer lane only)
LoadCreditObserverOnly == PC(1, 0)
LoadCredit == PC(1, 1)
\* (a release that forgets the local counter of the handle)
HandleReleaseOnlyUse(h) == PC(0, 1)
\* the amount a handle (c, p) releases on destruction
HandleRelease(h) == PC(h.ctr, 1)
\* the amount the const-reference compare_exchange returns for desired
\* (a release that returns nothing)
DesiredReleaseNone == PC(0, 0)
DesiredRelease == PC(0, 1)
\* the amount a weak handle releases
WeakRelease(h) == PC(h.ctr, 1)
\* the old weak counter at which release_weak frees the header
LastWeak == PC(0, 1)

VARIABLES
    cell,       \* atomic_shared_ptr::cptr_hdr_, a counted pointer
    cellAlive,  \* the cell has not been destroyed
    strong,     \* sptr_header_base::references_ of each block
    weak,       \* sptr_header_base::weak_references_ of each block
    obj,        \* the object of each block: "none", "alive", "destroying"
                \* (its destructor runs), "destroyed"
    hdr,        \* the header of each block: "free", "live"
    state,      \* shareable::state_ of each block, the set of its flags
    err,        \* what went wrong so far (double free, use after free)
    nops,       \* cell operations started so far
    pc,         \* position of each thread
    op,         \* operation each thread executes
    slot,       \* the two shared_ptr variables of each thread (e, d)
    wslot,      \* the two weak_ptr variables of each thread (w, v)
    cur,        \* cur_ref of a weak_lock
    xcp,        \* the local counted pointer (exp_ctrl_ptr, cur_ctrl_ptr)
    eptr,       \* expected_ptr of a compare_exchange
    acq,        \* acquired_des of a compare_exchange
    rel,        \* the release in progress: block and amount
    cont,       \* where the thread goes after the release in progress
    ret,        \* what the operation returned
    net         \* change of strong.c2 of desired's block made by the call

blockVars == <<strong, weak, obj, hdr, state, err>>
cellVars == <<cell, cellAlive, nops>>
threadVars == <<pc, op, slot, wslot, cur, xcp, eptr, acq, rel, cont, ret, net>>
vars == <<cell, cellAlive, strong, weak, obj, hdr, state, err, nops,
          pc, op, slot, wslot, cur, xcp, eptr, acq, rel, cont, ret, net>>

\* shareable::state_ of a block whose object is alive
Live == {}

NoRel == [b |-> NULL, cnt |-> PC(0, 0)]
Slots == {"e", "d"}
\* the two weak_ptr variables of a thread (w, v)
WSlots == {"w", "v"}
NoWeak == [s \in WSlots |-> NullCP]

\* the access of a header through a null pointer, or of a header that has
\* been freed, is recorded
Touch(b) ==
    IF b = NULL THEN err \cup {"null_dereference"}
    ELSE IF hdr[b] = "live" THEN err ELSE err \cup {"header_use_after_free"}
\* what a load of the strong or of the weak counter of block b may return:
\* the counter, or any value once the header has been freed; the values
\* that take the different branches of the readers are enumerated
StrongRead(b) ==
    IF hdr[b] = "live" THEN {strong[b]} ELSE {strong[b], PC(0, 0), PC(0, 1)}
WeakRead(b) ==
    IF hdr[b] = "live" THEN {weak[b]} ELSE {weak[b], PC(0, 0), PC(0, 1)}
Upd(f, t, v) == [f EXCEPT ![t] = v]
SetSlot(t, s, h) == [slot EXCEPT ![t][s] = h]
SetWSlot(t, s, h) == [wslot EXCEPT ![t][s] = h]

IsCas(o) == o \in {"cas_weak_r", "cas_weak_c", "cas_strong_r", "cas_strong_c"}
IsConstCas(o) == o \in {"cas_weak_c", "cas_strong_c"}
IsWeakCas(o) == o \in {"cas_weak_r", "cas_weak_c"}

(***************************************************************************)
(* Initial states.  Thread 1 has made block 1 and constructed the cell     *)
(* from its handle e (atomic_shared_ptr( shared_ptr<T>& r )), so the       *)
(* handle and the cell hold the block.  The cell is either fresh, or has   *)
(* served NormalizeThreshold - 2 loads whose handles were destroyed again: *)
(* each such load left one unit in the local counter of the cell and one   *)
(* in strong.c1 of the block.                                              *)
(***************************************************************************)
AgedLoads == {0, NormalizeThreshold - 2}

InitThreads ==
    /\ pc = [t \in Threads |-> "idle"]
    /\ op = [t \in Threads |-> "none"]
    /\ cur = [t \in Threads |-> PC(0, 0)]
    /\ xcp = [t \in Threads |-> NullCP]
    /\ eptr = [t \in Threads |-> NULL]
    /\ acq = [t \in Threads |-> FALSE]
    /\ rel = [t \in Threads |-> NoRel]
    /\ cont = [t \in Threads |-> "idle"]
    /\ ret = [t \in Threads |-> "none"]
    /\ net = [t \in Threads |-> 0]

Init ==
    /\ \E k \in AgedLoads :
          /\ cell = CP(k, 1)
          /\ strong = [b \in Blocks |-> IF b = 1 THEN PC(k, 2) ELSE PC(0, 0)]
    /\ slot = [t \in Threads |->
                 [s \in Slots |-> IF t = 1 /\ s = "e" THEN CP(0, 1) ELSE NullCP]]
    /\ wslot = [t \in Threads |-> NoWeak]
    /\ cellAlive = TRUE
    /\ weak = [b \in Blocks |-> PC(0, 0)]
    /\ obj = [b \in Blocks |-> IF b = 1 THEN "alive" ELSE "none"]
    /\ hdr = [b \in Blocks |-> IF b = 1 THEN "live" ELSE "free"]
    /\ state = [b \in Blocks |-> Live]
    /\ err = {}
    /\ nops = 0
    /\ InitThreads

(***************************************************************************)
(* sptr_header_base::release, in three steps: the fetch_sub, the           *)
(* destruction of the object, and the load of the weak counter with the    *)
(* destruction of the header.                                              *)
(***************************************************************************)
\* the test of release: the old counter equals the released amount
ReleaseHits(old, cnt) == old = cnt

\* (a release that does not test the pointer)
GoReleaseUnchecked(t, b, cnt, k) ==
    /\ pc' = Upd(pc, t, "rel")
    /\ rel' = Upd(rel, t, [b |-> b, cnt |-> cnt])
    /\ cont' = Upd(cont, t, k)
\* a release is the next thing thread t does, then it goes to k; nothing
\* is released through a null pointer
GoRelease(t, b, cnt, k) ==
    IF b = NULL
    THEN /\ pc' = Upd(pc, t, k)
         /\ rel' = Upd(rel, t, NoRel)
         /\ cont' = Upd(cont, t, "idle")
    ELSE /\ pc' = Upd(pc, t, "rel")
         /\ rel' = Upd(rel, t, [b |-> b, cnt |-> cnt])
         /\ cont' = Upd(cont, t, k)

Finish(t) ==
    /\ pc' = Upd(pc, t, cont[t])
    /\ rel' = Upd(rel, t, NoRel)
    /\ cont' = Upd(cont, t, "idle")

\* the part of strong.c2 of desired's block that thread t changes
NetAfter(t, b, d2) ==
    IF IsConstCas(op[t]) /\ b = slot[t].d.ptr /\ b # NULL
    THEN Upd(net, t, net[t] + d2) ELSE net

\* references_.fetch_sub( cnt ) on block b by thread t, which then destroys
\* the object or goes to k
FetchSub(t, b, cnt, k) ==
    /\ strong' = [strong EXCEPT ![b] = PCWordSub(@, cnt)]
    /\ err' = Touch(b)
    /\ net' = NetAfter(t, b, 0 - cnt.c2)
    /\ \E old \in StrongRead(b) :
          IF ReleaseHits(old, cnt)
          THEN /\ pc' = Upd(pc, t, "delobj")
               /\ rel' = Upd(rel, t, [b |-> b, cnt |-> cnt])
               /\ cont' = Upd(cont, t, k)
          ELSE /\ pc' = Upd(pc, t, k)
               /\ rel' = Upd(rel, t, NoRel)
               /\ cont' = Upd(cont, t, "idle")

ReleaseFetchSub(t) ==
    /\ pc[t] = "rel"
    /\ FetchSub(t, rel[t].b, rel[t].cnt, cont[t])
    /\ UNCHANGED <<cellVars, weak, obj, hdr, state, op, slot, wslot, cur, xcp, eptr, acq, ret>>

\* _delete_object( get_ptr() ): reads the header, destroys the object
DeleteObject(t) ==
    /\ pc[t] = "delobj"
    /\ LET b == rel[t].b
       IN  IF hdr[b] = "live"
           THEN /\ obj' = [obj EXCEPT ![b] = "destroyed"]
                /\ err' = IF obj[b] = "destroyed"
                          THEN err \cup {"object_destroyed_twice"} ELSE err
           ELSE /\ err' = err \cup {"header_use_after_free"}
                /\ \E o \in {obj[b], "destroyed"} : obj' = [obj EXCEPT ![b] = o]
    /\ pc' = Upd(pc, t, "delhdr")
    /\ UNCHANGED <<cellVars, strong, weak, hdr, state, op, slot, wslot, cur, xcp, eptr,
                   acq, rel, cont, ret, net>>

\* a handle, a weak handle or the cell references block b
Referenced(b) ==
    \/ \E t \in Threads :
          \/ \E s \in WSlots : wslot[t][s].ptr = b
          \/ \E s \in Slots : slot[t][s].ptr = b
    \/ cellAlive /\ cell.ptr = b

\* _delete_header(): delete this
FreeHeader(b) ==
    /\ hdr' = [hdr EXCEPT ![b] = "free"]
    /\ err' = (IF hdr[b] = "live" THEN err
               ELSE err \cup {"header_use_after_free", "header_freed_twice"})
              \cup (IF obj[b] \in {"alive", "destroying"}
                    THEN {"header_freed_before_object"} ELSE {})
              \cup (IF Referenced(b) THEN {"header_freed_while_referenced"} ELSE {})

\* weak_references_.load().word() == 0, then _delete_header()
ReleaseDeleteHeader(t) ==
    /\ pc[t] = "delhdr"
    /\ LET b == rel[t].b
       IN  \E w \in WeakRead(b) :
              IF w = PC(0, 0)
              THEN FreeHeader(b)
              ELSE /\ err' = Touch(b)
                   /\ UNCHANGED hdr
    /\ Finish(t)
    /\ UNCHANGED <<cellVars, strong, weak, obj, state, op, slot, wslot, cur, xcp, eptr,
                   acq, ret, net>>

\* the operation has returned; its locals go out of scope
Return(t) ==
    /\ pc[t] = "done"
    /\ pc' = Upd(pc, t, "idle")
    /\ op' = Upd(op, t, "none")
    /\ xcp' = Upd(xcp, t, NullCP)
    /\ eptr' = Upd(eptr, t, NULL)
    /\ acq' = Upd(acq, t, FALSE)
    /\ ret' = Upd(ret, t, "none")
    /\ net' = Upd(net, t, 0)
    /\ cur' = Upd(cur, t, PC(0, 0))
    /\ UNCHANGED <<cellVars, blockVars, slot, wslot, rel, cont>>
(***************************************************************************)
(* shared_ptr: construction, copy, move, destruction.                      *)
(***************************************************************************)
\* shared_ptr( T* ptr ) / make_shared: a new header at the address operator
\* new returns, which is any address that holds no live header (a header
\* that was freed before may be reused while lower addresses are free)
New(t, b) ==
    /\ pc[t] = "idle"
    /\ slot[t].d = NullCP
    /\ hdr[b] = "free"
    /\ hdr' = [hdr EXCEPT ![b] = "live"]
    /\ UNCHANGED state
    /\ obj' = [obj EXCEPT ![b] = "alive"]
    /\ strong' = [strong EXCEPT ![b] = InitialStrong]
    /\ weak' = [weak EXCEPT ![b] = InitialWeak]
    /\ slot' = SetSlot(t, "d", CP(0, b))
    /\ UNCHANGED <<cellVars, err, pc, op, wslot, cur, xcp, eptr, acq, rel, cont, ret, net>>

\* shared_ptr( const shared_ptr& r ): d becomes a copy of e
Copy(t) ==
    /\ pc[t] = "idle"
    /\ slot[t].d = NullCP
    /\ LET b == slot[t].e.ptr
       IN  /\ IF b = NULL THEN UNCHANGED <<strong, err>>
              ELSE /\ strong' = [strong EXCEPT ![b] = PCWordAdd(@, AcquireOne)]
                   /\ err' = Touch(b)
           /\ slot' = SetSlot(t, "d", CP(0, b))
    /\ UNCHANGED <<cellVars, weak, obj, hdr, state, pc, op, wslot, cur, xcp, eptr, acq, rel,
                   cont, ret, net>>

\* shared_ptr::swap (move construction and move assignment)
Swap(t) ==
    /\ pc[t] = "idle"
    /\ slot[t].e # slot[t].d
    /\ slot' = [slot EXCEPT ![t] = [e |-> slot[t].d, d |-> slot[t].e]]
    /\ UNCHANGED <<cellVars, blockVars, pc, op, wslot, cur, xcp, eptr, acq, rel, cont,
                   ret, net>>

\* ~shared_ptr / reset(): release( { ctr, 1 } ) unless the handle is null
Drop(t, s) ==
    /\ pc[t] = "idle"
    /\ slot[t][s] # NullCP
    /\ slot' = SetSlot(t, s, NullCP)
    /\ IF slot[t][s].ptr = NULL
       THEN UNCHANGED <<strong, err, net, pc, rel, cont>>
       ELSE FetchSub(t, slot[t][s].ptr, HandleRelease(slot[t][s]), "idle")
    /\ UNCHANGED <<cellVars, weak, obj, hdr, state, op, wslot, cur, xcp, eptr, acq, ret>>

(***************************************************************************)
(* shared_ptr::get: the address of the object, which is not the address of *)
(* the header; headers have the addresses in Blocks, objects the ones      *)
(* above them.                                                             *)
(***************************************************************************)
ObjectOf(b) == IF b = NULL THEN NULL ELSE NumBlocks + b
Get(h) == ObjectOf(h.ptr)

(***************************************************************************)
(* atomic_shared_ptr::_enter and what its callers do with the result.      *)
(***************************************************************************)
\* the caller of _enter continues with the counted pointer x; ep is its
\* expected_ptr and o its operation
Entered(t, o, x, ep) ==
    /\ xcp' = Upd(xcp, t, x)
    /\ CASE o = "load" ->
              IF x.ptr = NULL
              THEN /\ slot' = SetSlot(t, "e", NullCP)
                   /\ pc' = Upd(pc, t, "done")
                   /\ ret' = Upd(ret, t, "ok")
                   /\ UNCHANGED <<rel, cont>>
              ELSE /\ pc' = Upd(pc, t, "ld_acq")
                   /\ UNCHANGED <<slot, rel, cont, ret>>
         [] IsCas(o) /\ ep = x.ptr ->
              \* expected.cp_header_.counter()--
              /\ slot' = SetSlot(t, "e", CP(Wrap16(slot[t].e.ctr - 1), slot[t].e.ptr))
              /\ pc' = Upd(pc, t, IF IsConstCas(o) /\ ~acq[t] THEN "cas_acqdes" ELSE "cas")
              /\ UNCHANGED <<rel, cont, ret>>
         [] IsCas(o) /\ ~IsConstCas(o) /\ ep # x.ptr ->
              \* expected = shared_ptr{ p }: the old expected is released first
              /\ slot' = SetSlot(t, "e", CP(0, x.ptr))
              /\ ret' = Upd(ret, t, "false")
              /\ GoRelease(t, slot[t].e.ptr, HandleRelease(slot[t].e),
                           IF x.ptr = NULL THEN "done" ELSE "cf_acq")
         [] IsConstCas(o) /\ ep # x.ptr ->
              \* the credit acquired for desired is returned first
              /\ ret' = Upd(ret, t, "false")
              /\ GoRelease(t, IF acq[t] THEN slot[t].d.ptr ELSE NULL,
                           DesiredRelease, "cfc_acq")
              /\ UNCHANGED slot
         [] o = "wait" ->
              \* cur_ctrl.get_ptr() == old.get()
              /\ pc' = Upd(pc, t, IF x.ptr = Get(slot[t].d) THEN "w_wait" ELSE "w_leave")
              /\ UNCHANGED <<slot, rel, cont, ret>>

\* the threshold test of _enter
NeedsNormalize(x) == x.ctr >= NormalizeThreshold /\ x.ptr # NULL

\* cptr_hdr_.fetch_add( 1 ); ctrl_ptr.counter()++
Enter(t, o, ep) ==
    LET x == CPFetchAdd(cell, 1)
    IN  /\ cell' = x
        /\ IF NeedsNormalize(x)
           THEN /\ pc' = Upd(pc, t, "norm")
                /\ xcp' = Upd(xcp, t, x)
                /\ UNCHANGED <<slot, rel, cont, ret>>
           ELSE Entered(t, o, x, ep)

\* _try_leave( ctrl_ptr, ctrl_ptr.get_ctr() ): a strong CAS to counter 0;
\* on success ctrl_ptr.set_ctr( 0 )
TryLeave(t) ==
    /\ pc[t] = "norm"
    /\ IF cell = xcp[t]
       THEN /\ cell' = CP(Wrap16(xcp[t].ctr - xcp[t].ctr), xcp[t].ptr)
            /\ xcp' = Upd(xcp, t, CP(0, xcp[t].ptr))
            /\ pc' = Upd(pc, t, "unhold")
            /\ UNCHANGED <<slot, rel, cont, ret>>
       ELSE /\ UNCHANGED cell
            /\ Entered(t, op[t], xcp[t], eptr[t])
    /\ UNCHANGED <<cellAlive, nops, blockVars, op, wslot, cur, eptr, acq, net>>

\* the amount of ctrl_ptr->unhold( ctrl_ptr.get_ctr() ), x being ctrl_ptr
\* after set_ctr( 0 )
UnholdAmount(x) == PC(x.ctr, 0)

Unhold(t) ==
    /\ pc[t] = "unhold"
    /\ LET b == xcp[t].ptr
       IN  /\ strong' = [strong EXCEPT ![b] = PCWordSub(@, UnholdAmount(xcp[t]))]
           /\ err' = Touch(b)
    /\ Entered(t, op[t], xcp[t], eptr[t])
    /\ UNCHANGED <<cellVars, weak, obj, hdr, state, op, wslot, cur, eptr, acq, net>>

(***************************************************************************)
(* atomic_shared_ptr::load                                                 *)
(***************************************************************************)
CanStart(t) == pc[t] = "idle" /\ cellAlive /\ nops < MaxCellOps

\* load: cur_ctrl_ptr = _enter()
BeginLoad(t) ==
    /\ slot[t].e = NullCP
    /\ nops' = nops + 1
    /\ op' = Upd(op, t, "load")
    /\ Enter(t, "load", NULL)
    /\ UNCHANGED <<cellAlive, blockVars, wslot, cur, eptr, acq, net>>

StartLoad(t) == CanStart(t) /\ BeginLoad(t)

\* cur_ctrl_ptr->acquire( { 1, 1 } ); return shared_ptr{ cur_ctrl_ptr.get_ptr() }
LoadAcquire(t) ==
    /\ pc[t] = "ld_acq"
    /\ LET b == xcp[t].ptr
       IN  /\ strong' = [strong EXCEPT ![b] = PCWordAdd(@, LoadCredit)]
           /\ err' = Touch(b)
           /\ slot' = SetSlot(t, "e", CP(0, b))
    /\ pc' = Upd(pc, t, "done")
    /\ ret' = Upd(ret, t, "ok")
    /\ UNCHANGED <<cellVars, weak, obj, hdr, state, op, wslot, cur, xcp, eptr, acq, rel, cont, net>>

(***************************************************************************)
(* atomic_shared_ptr::store and exchange                                   *)
(***************************************************************************)
\* store( shared_ptr&& desired ): desired is left with the old content
BeginStoreRvalue(t) ==
    /\ nops' = nops + 1
    /\ cell' = slot[t].d
    /\ slot' = SetSlot(t, "d", cell)
    /\ UNCHANGED <<cellAlive, blockVars, pc, op, wslot, cur, xcp, eptr, acq, rel, cont,
                   ret, net>>

StoreRvalue(t) == CanStart(t) /\ BeginStoreRvalue(t)

\* exchange( shared_ptr&& desired ): the old content is returned into e
ExchangeRvalue(t) ==
    /\ CanStart(t)
    /\ slot[t].e = NullCP
    /\ nops' = nops + 1
    /\ cell' = slot[t].d
    /\ slot' = [slot EXCEPT ![t] = [e |-> cell, d |-> NullCP]]
    /\ op' = Upd(op, t, "xchg_r")
    /\ pc' = Upd(pc, t, "done")
    /\ xcp' = Upd(xcp, t, cell)
    /\ ret' = Upd(ret, t, "ok")
    /\ UNCHANGED <<cellAlive, blockVars, wslot, cur, eptr, acq, rel, cont, net>>

\* store( const shared_ptr& ) and exchange( const shared_ptr& ) begin with
\* an acquire on desired's block
StartConstWrite(t, o) ==
    /\ CanStart(t)
    /\ o = "xchg_c" => slot[t].e = NullCP
    /\ nops' = nops + 1
    /\ op' = Upd(op, t, o)
    /\ pc' = Upd(pc, t, "write")
    /\ LET b == slot[t].d.ptr
       IN  IF b = NULL THEN UNCHANGED <<strong, err>>
           ELSE /\ strong' = [strong EXCEPT ![b] = PCWordAdd(@, AcquireOne)]
                /\ err' = Touch(b)
    /\ UNCHANGED <<cell, cellAlive, weak, obj, hdr, state, slot, wslot, cur, xcp, eptr, acq,
                   rel, cont, ret, net>>

\* cptr_hdr_.exchange( { 0, desired_ptr } ); store destroys the old content,
\* exchange returns it
ConstWrite(t) ==
    /\ pc[t] = "write"
    /\ cell' = CP(0, slot[t].d.ptr)
    /\ xcp' = Upd(xcp, t, cell)
    /\ ret' = Upd(ret, t, "ok")
    /\ IF op[t] = "store_c"
       THEN /\ GoRelease(t, cell.ptr, HandleRelease(cell), "done")
            /\ UNCHANGED slot
       ELSE /\ slot' = SetSlot(t, "e", cell)
            /\ pc' = Upd(pc, t, "done")
            /\ UNCHANGED <<rel, cont>>
    /\ UNCHANGED <<cellAlive, nops, blockVars, op, wslot, cur, eptr, acq, net>>
(***************************************************************************)
(* atomic_shared_ptr::compare_exchange_weak / compare_exchange_strong,     *)
(* with desired taken as rvalue (_r) or by const reference (_c).           *)
(***************************************************************************)
\* (a credit in the observer lane only)
CasFailCreditObserverOnly == PC(1, 0)
\* the credit taken for the block that becomes the new expected
CasFailCredit == PC(1, 1)

\* expected_ptr = expected.cp_header_.get_ptr(); goto start
StartCas(t, o) ==
    /\ CanStart(t)
    /\ IsCas(o)
    /\ nops' = nops + 1
    /\ op' = Upd(op, t, o)
    /\ eptr' = Upd(eptr, t, slot[t].e.ptr)
    /\ Enter(t, o, slot[t].e.ptr)
    /\ UNCHANGED <<cellAlive, blockVars, wslot, cur, acq, net>>

\* desired_cptr->acquire( { 0, 1 } ); acquired_des = true
CasAcquireDesired(t) ==
    /\ pc[t] = "cas_acqdes"
    /\ LET b == slot[t].d.ptr
       IN  IF b = NULL THEN UNCHANGED <<strong, err, net>>
           ELSE /\ strong' = [strong EXCEPT ![b] = PCWordAdd(@, AcquireOne)]
                /\ err' = Touch(b)
                /\ net' = NetAfter(t, b, 1)
    /\ acq' = Upd(acq, t, TRUE)
    /\ pc' = Upd(pc, t, "cas")
    /\ UNCHANGED <<cellVars, weak, obj, hdr, state, op, slot, wslot, cur, xcp, eptr, rel, cont, ret>>

\* the counted pointer a compare_exchange installs
CasDesired(t) == IF IsConstCas(op[t]) THEN CP(0, slot[t].d.ptr) ELSE slot[t].d

\* the comparison of the 64-bit CAS on the cell
\* (a CAS that never finds the word it expects)
CasNeverMatches(c, x) == FALSE
CasMatches(c, x) == c = x

\* (the CAS is tried again whatever the cell holds)
AfterFailedCasAlwaysRetry(ep, x) == "cas"
\* after a failed CAS: enter again if the pointer is not the expected one
AfterFailedCas(ep, x) == IF ep # x.ptr THEN "reenter" ELSE "cas"

\* (desired takes over the pointer only)
TakenOverPointerOnly(t) == CP(0, xcp[t].ptr)
\* desired.cp_header_ = exp_ctrl_ptr, after the successful CAS
TakenOver(t) == xcp[t]

\* cptr_hdr_.compare_exchange( exp_ctrl_ptr, desired )
Cas(t) ==
    /\ pc[t] = "cas"
    /\ IF CasMatches(cell, xcp[t])
       THEN /\ cell' = CasDesired(t)
            /\ ret' = Upd(ret, t, "true")
            /\ UNCHANGED xcp
            /\ IF IsConstCas(op[t])
               THEN /\ GoRelease(t, eptr[t], PC(xcp[t].ctr, 1), "done")
                    /\ UNCHANGED slot
               ELSE /\ slot' = SetSlot(t, "d", TakenOver(t))
                    /\ pc' = Upd(pc, t, "done")
                    /\ UNCHANGED <<rel, cont>>
       ELSE /\ xcp' = Upd(xcp, t, cell)
            /\ pc' = Upd(pc, t, AfterFailedCas(eptr[t], cell))
            /\ UNCHANGED <<cell, slot, rel, cont, ret>>
    /\ UNCHANGED <<cellAlive, nops, blockVars, op, wslot, cur, eptr, acq, net>>

\* compare_exchange_weak on the cell may fail although the words are equal
CasSpurious(t) ==
    /\ pc[t] = "cas"
    /\ IsWeakCas(op[t])
    /\ cell = xcp[t]
    /\ pc' = Upd(pc, t, "casretry")
    /\ UNCHANGED <<cellVars, blockVars, op, slot, wslot, cur, xcp, eptr, acq, rel, cont,
                   ret, net>>

CasRetry(t) ==
    /\ pc[t] = "casretry"
    /\ pc' = Upd(pc, t, AfterFailedCas(eptr[t], xcp[t]))
    /\ UNCHANGED <<cellVars, blockVars, op, slot, wslot, cur, xcp, eptr, acq, rel, cont,
                   ret, net>>

\* start: exp_ctrl_ptr = _enter()
Reenter(t) ==
    /\ pc[t] = "reenter"
    /\ Enter(t, op[t], eptr[t])
    /\ UNCHANGED <<cellAlive, nops, blockVars, op, wslot, cur, eptr, acq, net>>

\* rvalue desired, failure: exp_ctrl_ptr->acquire( { 1, 1 } ); return false
CasFailAcquire(t) ==
    /\ pc[t] = "cf_acq"
    /\ LET b == xcp[t].ptr
       IN  /\ strong' = [strong EXCEPT ![b] = PCWordAdd(@, CasFailCredit)]
           /\ err' = Touch(b)
    /\ pc' = Upd(pc, t, "done")
    /\ UNCHANGED <<cellVars, weak, obj, hdr, state, op, slot, wslot, cur, xcp, eptr, acq, rel,
                   cont, ret, net>>

\* const desired, failure: exp_ctrl_ptr->acquire( { 1, 1 } );
\* expected = shared_ptr{ p }; return false
CasFailAcquireConst(t) ==
    /\ pc[t] = "cfc_acq"
    /\ LET b == xcp[t].ptr
       IN  IF b = NULL THEN UNCHANGED <<strong, err, net>>
           ELSE /\ strong' = [strong EXCEPT ![b] = PCWordAdd(@, CasFailCredit)]
                /\ err' = Touch(b)
                /\ net' = NetAfter(t, b, 1)
    /\ slot' = SetSlot(t, "e", CP(0, xcp[t].ptr))
    /\ GoRelease(t, slot[t].e.ptr, HandleRelease(slot[t].e), "done")
    /\ UNCHANGED <<cellVars, weak, obj, hdr, state, op, wslot, cur, xcp, eptr, acq, ret>>

(***************************************************************************)
(* atomic_shared_ptr::wait( shared_ptr old ) with _leave and _reenter.     *)
(* The parameter old is the handle d of the thread, moved or copied into   *)
(* the call beforehand and destroyed at its return.  wait compares the     *)
(* header pointer of the cell with old.get(), the address of the object.   *)
(***************************************************************************)
\* the amount of the release in _leave and _reenter
LeaveRelease == PC(1, 0)

\* cur_ctrl = _enter( order )
StartWait(t) ==
    /\ pc[t] = "idle" /\ cellAlive /\ nops < MaxCellOps
    /\ nops' = nops + 1
    /\ op' = Upd(op, t, "wait")
    /\ Enter(t, "wait", NULL)
    /\ UNCHANGED <<cellAlive, blockVars, wslot, cur, eptr, acq, net>>

\* cptr_hdr_.wait( cur_ctrl ) returns once the word of the cell differs
WaitWake(t) ==
    /\ pc[t] = "w_wait"
    /\ cell # xcp[t]
    /\ pc' = Upd(pc, t, "w_reenter")
    /\ UNCHANGED <<cellVars, blockVars, op, slot, wslot, cur, xcp, eptr, acq, rel, cont,
                   ret, net>>

\* _reenter: the load of the cell; with the pointer unchanged the loaded
\* word is returned, otherwise old_ctrl_ptr->release( { 1, 0 } ) and _enter
WaitReenter(t) ==
    /\ pc[t] = "w_reenter"
    /\ IF cell.ptr = xcp[t].ptr
       THEN /\ xcp' = Upd(xcp, t, cell)
            /\ pc' = Upd(pc, t, IF cell.ptr = Get(slot[t].d) THEN "w_wait" ELSE "w_leave")
            /\ UNCHANGED <<rel, cont>>
       ELSE /\ GoRelease(t, xcp[t].ptr, LeaveRelease, "w_enter")
            /\ UNCHANGED xcp
    /\ UNCHANGED <<cellVars, blockVars, op, slot, wslot, cur, eptr, acq, ret, net>>

\* _reenter: return _enter( order )
WaitEnter(t) ==
    /\ pc[t] = "w_enter"
    /\ Enter(t, "wait", NULL)
    /\ UNCHANGED <<cellAlive, nops, blockVars, op, wslot, cur, eptr, acq, net>>

\* _leave: the CAS from ( ctr, p ) to ( ctr - 1, p ); when it fails on
\* another pointer, _release( p, { 1, 0 } ); when it fails on the counter
\* alone, once more with the word read
WaitLeave(t) ==
    /\ pc[t] = "w_leave"
    /\ IF cell = xcp[t]
       THEN /\ cell' = CP(Wrap16(xcp[t].ctr - 1), xcp[t].ptr)
            /\ pc' = Upd(pc, t, "w_ret")
            /\ UNCHANGED <<xcp, rel, cont>>
       ELSE /\ UNCHANGED cell
            /\ xcp' = Upd(xcp, t, cell)
            /\ IF cell.ptr # xcp[t].ptr
               THEN GoRelease(t, xcp[t].ptr, LeaveRelease, "w_ret")
               ELSE /\ pc' = Upd(pc, t, "w_leave")
                    /\ UNCHANGED <<rel, cont>>
    /\ UNCHANGED <<cellAlive, nops, blockVars, op, slot, wslot, cur, eptr, acq, ret, net>>

\* return: the parameter old is destroyed
WaitReturn(t) ==
    /\ pc[t] = "w_ret"
    /\ slot' = SetSlot(t, "d", NullCP)
    /\ ret' = Upd(ret, t, "ok")
    /\ GoRelease(t, slot[t].d.ptr, HandleRelease(slot[t].d), "done")
    /\ UNCHANGED <<cellVars, blockVars, op, wslot, cur, xcp, eptr, acq, net>>

(***************************************************************************)
(* ~atomic_shared_ptr, when no operation is in progress                    *)
(***************************************************************************)
DestroyCell(t) ==
    /\ cellAlive
    /\ \A u \in Threads : pc[u] = "idle"
    /\ cellAlive' = FALSE
    /\ cell' = NullCP
    /\ GoRelease(t, cell.ptr, HandleRelease(cell), "idle")
    /\ UNCHANGED <<nops, blockVars, op, slot, wslot, cur, xcp, eptr, acq, ret, net>>

CasOps == {"cas_weak_r", "cas_weak_c", "cas_strong_r", "cas_strong_c"}

Next ==
    \E t \in Threads :
        \/ \E b \in Blocks : New(t, b)
        \/ Copy(t)
        \/ Swap(t)
        \/ \E s \in Slots : Drop(t, s)
        \/ StartLoad(t)
        \/ TryLeave(t)
        \/ Unhold(t)
        \/ LoadAcquire(t)
        \/ StoreRvalue(t)
        \/ ExchangeRvalue(t)
        \/ \E o \in {"store_c", "xchg_c"} : StartConstWrite(t, o)
        \/ ConstWrite(t)
        \/ \E o \in CasOps : StartCas(t, o)
        \/ CasAcquireDesired(t)
        \/ Cas(t)
        \/ CasSpurious(t)
        \/ CasRetry(t)
        \/ Reenter(t)
        \/ CasFailAcquire(t)
        \/ CasFailAcquireConst(t)
        \/ ReleaseFetchSub(t)
        \/ DeleteObject(t)
        \/ ReleaseDeleteHeader(t)
        \/ Return(t)
        \/ DestroyCell(t)

Spec == Init /\ [][Next]_vars

(***************************************************************************)
(* wait with a writer: a fresh cell that holds block 1 or is empty, the    *)
(* handles as in Init.                                                     *)
(***************************************************************************)
InitWait ==
    /\ \E p \in {NULL, 1} :
          /\ cell = CP(0, p)
          /\ strong = [b \in Blocks |->
                         IF b = 1 THEN (IF p = 1 THEN PC(0, 2) ELSE InitialStrong)
                         ELSE PC(0, 0)]
    /\ slot = [t \in Threads |->
                 [s \in Slots |-> IF t = 1 /\ s = "e" THEN CP(0, 1) ELSE NullCP]]
    /\ wslot = [t \in Threads |-> NoWeak]
    /\ cellAlive = TRUE
    /\ weak = [b \in Blocks |-> PC(0, 0)]
    /\ obj = [b \in Blocks |-> IF b = 1 THEN "alive" ELSE "none"]
    /\ hdr = [b \in Blocks |-> IF b = 1 THEN "live" ELSE "free"]
    /\ state = [b \in Blocks |-> Live]
    /\ err = {}
    /\ nops = 0
    /\ InitThreads

NextWait ==
    \E t \in Threads :
        \/ \E b \in Blocks : New(t, b)
        \/ Copy(t)
        \/ Swap(t)
        \/ \E s \in Slots : Drop(t, s)
        \/ StoreRvalue(t)
        \/ StartWait(t)
        \/ WaitWake(t)
        \/ WaitReenter(t)
        \/ WaitEnter(t)
        \/ WaitLeave(t)
        \/ WaitReturn(t)
        \/ ReleaseFetchSub(t)
        \/ DeleteObject(t)
        \/ ReleaseDeleteHeader(t)
        \/ Return(t)

SpecWait == InitWait /\ [][NextWait]_vars

(***************************************************************************)
(* Scheduling.  A thread that is inside an operation or a release is not   *)
(* suspended for ever: some thread inside an operation eventually takes    *)
(* its next step.  compare_exchange_weak on the cell does not fail         *)
(* spuriously for ever, so a thread that is at its CAS again and again     *)
(* eventually executes the CAS.                                            *)
(***************************************************************************)
\* the next step of thread t inside an operation or a release
OpStep(t) ==
    \/ TryLeave(t)
    \/ Unhold(t)
    \/ LoadAcquire(t)
    \/ ConstWrite(t)
    \/ CasAcquireDesired(t)
    \/ Cas(t)
    \/ CasRetry(t)
    \/ Reenter(t)
    \/ CasFailAcquire(t)
    \/ CasFailAcquireConst(t)
    \/ ReleaseFetchSub(t)
    \/ DeleteObject(t)
    \/ ReleaseDeleteHeader(t)

Fairness ==
    /\ WF_vars(\E t \in Threads : OpStep(t))
    /\ \A t \in Threads : SF_vars(Cas(t))

SpecLive == Init /\ [][Next]_vars /\ Fairness

(***************************************************************************)
(* weak_ptr: construction from a shared_ptr, destruction, lock.  The       *)
(* threads share one block through shared and weak handles; there is no    *)
(* cell.                                                                   *)
(***************************************************************************)
\* weak_ptr( const shared_ptr<T>& r ): acquire_weak()
MakeWeak(t) ==
    /\ pc[t] = "idle"
    /\ wslot[t].w = NullCP
    /\ slot[t].e.ptr # NULL
    /\ LET b == slot[t].e.ptr
       IN  /\ weak' = [weak EXCEPT ![b] = PCWordAdd(@, AcquireOne)]
           /\ err' = Touch(b)
           /\ wslot' = SetWSlot(t, "w", CP(0, b))
    /\ UNCHANGED <<cellVars, strong, obj, hdr, state, pc, op, slot, cur, xcp, eptr, acq,
                   rel, cont, ret, net>>

\* weak_ptr( const weak_ptr& r ): v becomes a copy of w, with acquire_weak()
\* unless w is null
CopyWeak(t) ==
    /\ pc[t] = "idle"
    /\ wslot[t].v = NullCP
    /\ LET b == wslot[t].w.ptr
       IN  /\ IF b = NULL THEN UNCHANGED <<weak, err>>
              ELSE /\ weak' = [weak EXCEPT ![b] = PCWordAdd(@, AcquireOne)]
                   /\ err' = Touch(b)
           /\ wslot' = SetWSlot(t, "v", CP(0, b))
    /\ UNCHANGED <<cellVars, strong, obj, hdr, state, pc, op, slot, cur, xcp, eptr, acq,
                   rel, cont, ret, net>>

\* release_weak( { ctr, 1 } ) on the block of the weak handle h: the
\* fetch_sub and the test of the old value; thread t then loads the strong
\* counter, or goes to k
WeakFetchSub(t, h, k) ==
    LET b == h.ptr
    IN  /\ weak' = [weak EXCEPT ![b] = PCWordSub(@, WeakRelease(h))]
        /\ err' = Touch(b)
        /\ \E old \in WeakRead(b) :
              IF old = LastWeak
              THEN /\ pc' = Upd(pc, t, "rw_check")
                   /\ rel' = Upd(rel, t, [b |-> b, cnt |-> WeakRelease(h)])
                   /\ cont' = Upd(cont, t, k)
              ELSE /\ pc' = Upd(pc, t, k)
                   /\ UNCHANGED <<rel, cont>>

\* ~weak_ptr / reset(): release_weak( { ctr, 1 } ) unless the handle is null
DropWeak(t, s) ==
    /\ pc[t] = "idle"
    /\ wslot[t][s].ptr # NULL
    /\ WeakFetchSub(t, wslot[t][s], "idle")
    /\ wslot' = SetWSlot(t, s, NullCP)
    /\ UNCHANGED <<cellVars, strong, obj, hdr, state, op, slot, cur, xcp, eptr, acq,
                   ret, net>>

\* release_weak: references_.load().word() == 0, then _delete_header()
ReleaseWeakCheck(t) ==
    /\ pc[t] = "rw_check"
    /\ LET b == rel[t].b
       IN  \E r \in StrongRead(b) :
              IF r = PC(0, 0)
              THEN FreeHeader(b)
              ELSE /\ err' = Touch(b)
                   /\ UNCHANGED hdr
    /\ Finish(t)
    /\ UNCHANGED <<cellVars, strong, weak, obj, state, op, slot, wslot, cur, xcp, eptr,
                   acq, ret, net>>

\* the assignments in progress and the weak_ptr variable they assign to
AssignOp(s) == IF s = "w" THEN "assign_w" ELSE "assign_v"
AssignSharedOp(s) == IF s = "w" THEN "assign_shared_w" ELSE "assign_shared_v"
AssignTarget(o) == IF o \in {"assign_w", "assign_shared_w"} THEN "w" ELSE "v"
\* operator=( const shared_ptr<T>& ) and operator=( weak_ptr&& ) have no
\* return statement
LacksReturn(o) == o \in {"assign_shared_w", "assign_shared_v", "move_assign"}
\* where the thread is after the last statement of the assignment
AssignEnd(o) == IF LacksReturn(o) THEN "wa_end" ELSE "idle"

\* what a call that flows off the end of a function returning a reference
\* does: it returns to the caller, or it does not return
FlowsOffEndOutcomes == {"returns", "no_return"}

\* the assignment o of the pointer p to the weak_ptr variable s of thread
\* t: release_weak( { ctr, 1 } ) unless the variable is null, then
\* cp_header_ = { 0, p }, then acquire_weak() unless p is null; the
\* acquire_weak is a step of its own when a release_weak precedes it
AssignWeakTo(t, s, p, o) ==
    /\ pc[t] = "idle"
    /\ wslot' = SetWSlot(t, s, CP(0, p))
    /\ IF wslot[t][s].ptr # NULL
       THEN /\ WeakFetchSub(t, wslot[t][s], IF p = NULL THEN AssignEnd(o) ELSE "wa_acquire")
            /\ op' = Upd(op, t, IF p = NULL /\ ~LacksReturn(o) THEN "none" ELSE o)
       ELSE /\ IF p = NULL THEN UNCHANGED <<weak, err>>
               ELSE /\ weak' = [weak EXCEPT ![p] = PCWordAdd(@, AcquireOne)]
                    /\ err' = Touch(p)
            /\ pc' = Upd(pc, t, AssignEnd(o))
            /\ op' = Upd(op, t, IF LacksReturn(o) THEN o ELSE "none")
            /\ UNCHANGED <<rel, cont>>
    /\ UNCHANGED <<cellVars, strong, obj, hdr, state, slot, cur, xcp, eptr, acq, ret, net>>

\* weak_ptr::operator=( const weak_ptr& r ): the variable s becomes a copy
\* of the variable r, which may be s itself
AssignWeak(t, s, r) == AssignWeakTo(t, s, wslot[t][r].ptr, AssignOp(s))

\* weak_ptr::operator=( const shared_ptr<T>& r ): the variable s becomes a
\* weak handle to the block of e; the function then flows off its end
AssignWeakShared(t, s) == AssignWeakTo(t, s, slot[t].e.ptr, AssignSharedOp(s))

\* the acquire_weak() of an assignment, on the block the variable has been
\* given
AssignWeakAcquire(t) ==
    /\ pc[t] = "wa_acquire"
    /\ LET b == wslot[t][AssignTarget(op[t])].ptr
       IN  /\ weak' = [weak EXCEPT ![b] = PCWordAdd(@, AcquireOne)]
           /\ err' = Touch(b)
    /\ pc' = Upd(pc, t, AssignEnd(op[t]))
    /\ op' = Upd(op, t, IF LacksReturn(op[t]) THEN op[t] ELSE "none")
    /\ UNCHANGED <<cellVars, strong, obj, hdr, state, slot, wslot, cur, xcp, eptr, acq,
                   rel, cont, ret, net>>

\* weak_ptr::swap, and weak_ptr( weak_ptr&& r ), which swaps an empty handle
\* with r: w and v exchange what they reference, no counter is accessed
SwapWeak(t) ==
    /\ pc[t] = "idle"
    /\ wslot[t].w # wslot[t].v
    /\ wslot' = [wslot EXCEPT ![t] = [w |-> wslot[t].v, v |-> wslot[t].w]]
    /\ UNCHANGED <<cellVars, blockVars, pc, op, slot, cur, xcp, eptr, acq, rel, cont,
                   ret, net>>

\* weak_ptr::operator=( weak_ptr&& r ): swap( r ); the function then flows
\* off its end
MoveAssignWeak(t) ==
    /\ pc[t] = "idle"
    /\ wslot' = [wslot EXCEPT ![t] = [w |-> wslot[t].v, v |-> wslot[t].w]]
    /\ pc' = Upd(pc, t, "wa_end")
    /\ op' = Upd(op, t, "move_assign")
    /\ UNCHANGED <<cellVars, blockVars, slot, cur, xcp, eptr, acq, rel, cont, ret, net>>

\* the end of an assignment that has no return statement, which is
\* undefined: the call returns, or it does not and the program stops
FlowsOffEnd(t) ==
    /\ pc[t] = "wa_end"
    /\ \E r \in FlowsOffEndOutcomes :
          IF r = "returns"
          THEN /\ pc' = Upd(pc, t, "idle")
               /\ op' = Upd(op, t, "none")
               /\ UNCHANGED err
          ELSE /\ pc' = Upd(pc, t, "no_return")
               /\ err' = err \cup {"no_return"}
               /\ UNCHANGED op
    /\ UNCHANGED <<cellVars, strong, weak, obj, hdr, state, slot, wslot, cur, xcp, eptr,
                   acq, rel, cont, ret, net>>

\* the test of weak_lock: cur_ref.get_cnt2() == 0
WeakLockFails(c) == c.c2 = 0

\* weak_lock continues with the counter c it has read: it returns false,
\* or goes to its CAS
WeakLockRead(t, c) ==
    /\ cur' = Upd(cur, t, c)
    /\ IF WeakLockFails(c)
       THEN /\ pc' = Upd(pc, t, "done")
            /\ ret' = Upd(ret, t, "null")
       ELSE /\ pc' = Upd(pc, t, "wl_cas")
            /\ UNCHANGED ret

\* weak_ptr::lock: cur_ref = references_.load()
StartLock(t) ==
    /\ pc[t] = "idle"
    /\ slot[t].d = NullCP
    /\ wslot[t].w.ptr # NULL
    /\ op' = Upd(op, t, "lock")
    /\ err' = Touch(wslot[t].w.ptr)
    /\ \E c \in StrongRead(wslot[t].w.ptr) : WeakLockRead(t, c)
    /\ UNCHANGED <<cellVars, strong, weak, obj, hdr, state, slot, wslot, xcp, eptr, acq,
                   rel, cont, net>>

\* (a CAS that does not compare)
WeakLockCasBlind(c, x) == TRUE
\* the comparison of references_.compare_exchange_weak( cur_ref, ... )
WeakLockCasMatches(c, x) == c = x

\* references_.compare_exchange_weak( cur_ref, { cnt1, cnt2 + 1 } ); on
\* success lock returns shared_ptr{ ptr }
WeakLockCas(t) ==
    /\ pc[t] = "wl_cas"
    /\ LET b == wslot[t].w.ptr
       IN  /\ err' = Touch(b)
           /\ \E c \in StrongRead(b) :
                 IF WeakLockCasMatches(c, cur[t])
                 THEN /\ strong' = [strong EXCEPT ![b] = PC(cur[t].c1, cur[t].c2 + 1)]
                      /\ slot' = SetSlot(t, "d", CP(0, b))
                      /\ pc' = Upd(pc, t, "done")
                      /\ ret' = Upd(ret, t, "locked")
                      /\ UNCHANGED cur
                 ELSE /\ WeakLockRead(t, c)
                      /\ UNCHANGED <<strong, slot>>
    /\ UNCHANGED <<cellVars, weak, obj, hdr, state, op, wslot, xcp, eptr, acq, rel, cont,
                   net>>

\* the handles each thread starts with: thread 1 a shared handle, the
\* others a shared handle or none, every thread possibly a weak handle
InitWeak ==
    /\ \E hs \in SUBSET (Threads \ {1}), ws \in SUBSET Threads :
          /\ slot = [t \in Threads |->
                       [s \in Slots |-> IF s = "e" /\ t \in hs \cup {1}
                                        THEN CP(0, 1) ELSE NullCP]]
          /\ wslot = [t \in Threads |->
                        [NoWeak EXCEPT !.w = IF t \in ws THEN CP(0, 1) ELSE NullCP]]
          /\ strong = [b \in Blocks |->
                         IF b = 1 THEN PC(0, Cardinality(hs) + 1) ELSE PC(0, 0)]
          /\ weak = [b \in Blocks |->
                       IF b = 1 THEN PC(0, Cardinality(ws)) ELSE PC(0, 0)]
    /\ cell = NullCP
    /\ cellAlive = FALSE
    /\ obj = [b \in Blocks |-> IF b = 1 THEN "alive" ELSE "none"]
    /\ hdr = [b \in Blocks |-> IF b = 1 THEN "live" ELSE "free"]
    /\ state = [b \in Blocks |-> Live]
    /\ err = {}
    /\ nops = 0
    /\ InitThreads

\* an access of a freed header, a second destruction, or a call that does
\* not return, has happened
UndefinedBehaviour ==
    err \cap {"header_use_after_free", "header_freed_twice",
              "object_destroyed_twice", "no_return"} # {}

\* a behaviour is followed up to its first undefined behaviour, whose
\* outcomes are its last step
Defined == ~UndefinedBehaviour

NextWeak ==
    \E t \in Threads :
        \/ Defined /\ Copy(t)
        \/ Defined /\ Swap(t)
        \/ Defined /\ \E s \in Slots : Drop(t, s)
        \/ Defined /\ MakeWeak(t)
        \/ Defined /\ CopyWeak(t)
        \/ Defined /\ \E s \in WSlots : DropWeak(t, s)
        \/ Defined /\ \E s \in WSlots, r \in WSlots : AssignWeak(t, s, r)
        \/ Defined /\ \E s \in WSlots : AssignWeakShared(t, s)
        \/ Defined /\ AssignWeakAcquire(t)
        \/ Defined /\ SwapWeak(t)
        \/ Defined /\ MoveAssignWeak(t)
        \/ Defined /\ FlowsOffEnd(t)
        \/ Defined /\ ReleaseWeakCheck(t)
        \/ Defined /\ StartLock(t)
        \/ Defined /\ WeakLockCas(t)
        \/ Defined /\ DeleteObject(t)
        \/ Defined /\ ReleaseDeleteHeader(t)
        \/ Defined /\ Return(t)

SpecWeak == InitWeak /\ [][NextWeak]_vars
(***************************************************************************)
(* Weak handles on a block that a cell holds: load, store and exchange on  *)
(* the cell, lock and expired on the weak handles.                         *)
(***************************************************************************)
\* the test of weak_ptr::expired: use_count() == 0
IsExpired(c) == c.c2 = 0

\* weak_ptr::expired: references_.load().get_cnt2() == 0
Expired(t) ==
    /\ pc[t] = "idle"
    /\ wslot[t].w.ptr # NULL
    /\ op' = Upd(op, t, "expired")
    /\ pc' = Upd(pc, t, "done")
    /\ err' = Touch(wslot[t].w.ptr)
    /\ \E c \in StrongRead(wslot[t].w.ptr) :
          /\ cur' = Upd(cur, t, c)
          /\ ret' = Upd(ret, t, IF IsExpired(c) THEN "expired" ELSE "valid")
    /\ UNCHANGED <<cellVars, strong, weak, obj, hdr, state, slot, wslot, xcp, eptr, acq,
                   rel, cont, net>>

\* thread 1 has made block 1 and constructed the cell from its handle e;
\* every thread has a weak handle made from that handle
InitCellWeak ==
    /\ \E k \in AgedLoads :
          /\ cell = CP(k, 1)
          /\ strong = [b \in Blocks |-> IF b = 1 THEN PC(k, 2) ELSE PC(0, 0)]
    /\ slot = [t \in Threads |->
                 [s \in Slots |-> IF t = 1 /\ s = "e" THEN CP(0, 1) ELSE NullCP]]
    /\ wslot = [t \in Threads |-> [NoWeak EXCEPT !.w = CP(0, 1)]]
    /\ weak = [b \in Blocks |-> IF b = 1 THEN PC(0, NumThreads) ELSE PC(0, 0)]
    /\ cellAlive = TRUE
    /\ obj = [b \in Blocks |-> IF b = 1 THEN "alive" ELSE "none"]
    /\ hdr = [b \in Blocks |-> IF b = 1 THEN "live" ELSE "free"]
    /\ state = [b \in Blocks |-> Live]
    /\ err = {}
    /\ nops = 0
    /\ InitThreads

NextCellWeak ==
    \E t \in Threads :
        \/ Defined /\ Swap(t)
        \/ Defined /\ \E s \in Slots : Drop(t, s)
        \/ Defined /\ StartLoad(t)
        \/ Defined /\ TryLeave(t)
        \/ Defined /\ Unhold(t)
        \/ Defined /\ LoadAcquire(t)
        \/ Defined /\ StoreRvalue(t)
        \/ Defined /\ ExchangeRvalue(t)
        \/ Defined /\ \E o \in {"store_c", "xchg_c"} : StartConstWrite(t, o)
        \/ Defined /\ ConstWrite(t)
        \/ Defined /\ StartLock(t)
        \/ Defined /\ WeakLockCas(t)
        \/ Defined /\ Expired(t)
        \/ Defined /\ SwapWeak(t)
        \/ Defined /\ ReleaseFetchSub(t)
        \/ Defined /\ DeleteObject(t)
        \/ Defined /\ ReleaseDeleteHeader(t)
        \/ Defined /\ Return(t)

SpecCellWeak == InitCellWeak /\ [][NextCellWeak]_vars

(***************************************************************************)
(* shareable: object and header in one allocation, with state_ deciding    *)
(* who frees it.  release and release_weak are those of sptr_header_base;  *)
(* _delete_object and _delete_header are the overrides of shareable.  An   *)
(* assert that fails is recorded, the build without assertions goes on.    *)
(***************************************************************************)
\* the flags that _delete_object flips: destroying_object | object_destroyed
ObjectFlags == {"destroying_object", "object_destroyed"}

\* state_.fetch_xor( flags )
FetchXor(st, flags) == (st \ flags) \cup (flags \ st)

\* the test of _delete_header: the object is being destroyed by another
\* thread, which will destroy the header
LeavesHeader(old) == "destroying_object" \in old

\* _delete_object: state_.fetch_or( destroying_object ); the destructor of
\* the object starts
ShBeginDeleteObject(t) ==
    /\ pc[t] = "delobj"
    /\ LET b == rel[t].b
       IN  /\ state' = [state EXCEPT ![b] = @ \cup {"destroying_object"}]
           /\ obj' = [obj EXCEPT ![b] = "destroying"]
           /\ err' = Touch(b)
                     \cup (IF state[b] \cap ObjectFlags # {}
                           THEN {"assertion_failed"} ELSE {})
                     \cup (IF obj[b] # "alive"
                           THEN {"object_destroyed_twice"} ELSE {})
    /\ pc' = Upd(pc, t, "sh_xor")
    /\ UNCHANGED <<cellVars, strong, weak, hdr, op, slot, wslot, cur, xcp, eptr, acq,
                   rel, cont, ret, net>>

\* _delete_object: the destructor has completed;
\* state_.fetch_xor( destroying_object | object_destroyed ); if another
\* thread wanted to destroy the header, _delete_header() is called
ShEndDeleteObject(t) ==
    /\ pc[t] = "sh_xor"
    /\ LET b == rel[t].b
       IN  /\ state' = [state EXCEPT ![b] = FetchXor(@, ObjectFlags)]
           /\ obj' = [obj EXCEPT ![b] = "destroyed"]
           /\ err' = Touch(b)
                     \cup (IF state[b] \cap ObjectFlags # {"destroying_object"}
                           THEN {"assertion_failed"} ELSE {})
           /\ pc' = Upd(pc, t, IF "destroy_header" \in state[b]
                               THEN "sh_delhdr_obj" ELSE "delhdr")
    /\ UNCHANGED <<cellVars, strong, weak, hdr, op, slot, wslot, cur, xcp, eptr, acq,
                   rel, cont, ret, net>>

\* _delete_header: state_.fetch_or( destroy_header ); unless the object is
\* being destroyed, destroy_at( this ) and deleter( this )
ShFreeHeader(b) ==
    /\ state' = [state EXCEPT ![b] = @ \cup {"destroy_header"}]
    /\ IF LeavesHeader(state[b])
       THEN /\ err' = Touch(b)
                      \cup (IF state[b] \cap ObjectFlags = {}
                            THEN {"assertion_failed"} ELSE {})
            /\ UNCHANGED hdr
       ELSE /\ hdr' = [hdr EXCEPT ![b] = "free"]
            /\ err' = (IF hdr[b] = "live" THEN err
                       ELSE err \cup {"header_use_after_free", "header_freed_twice"})
                      \cup (IF obj[b] \in {"alive", "destroying"}
                            THEN {"header_freed_before_object"} ELSE {})
                      \cup (IF state[b] \cap ObjectFlags = {}
                            THEN {"assertion_failed"} ELSE {})

\* _delete_header() called by _delete_object; release goes on with the
\* load of the weak counter
ShDeleteHeaderByObject(t) ==
    /\ pc[t] = "sh_delhdr_obj"
    /\ ShFreeHeader(rel[t].b)
    /\ pc' = Upd(pc, t, "delhdr")
    /\ UNCHANGED <<cellVars, strong, weak, obj, op, slot, wslot, cur, xcp, eptr, acq,
                   rel, cont, ret, net>>

\* _delete_header() called by release or by release_weak, which return
ShDeleteHeader(t) ==
    /\ pc[t] = "sh_delhdr"
    /\ ShFreeHeader(rel[t].b)
    /\ Finish(t)
    /\ UNCHANGED <<cellVars, strong, weak, obj, op, slot, wslot, cur, xcp, eptr, acq,
                   ret, net>>

\* release: weak_references_.load().word() == 0, then _delete_header()
ShReleaseWeakLoad(t) ==
    /\ pc[t] = "delhdr"
    /\ err' = Touch(rel[t].b)
    /\ \E w \in WeakRead(rel[t].b) :
          IF w = PC(0, 0)
          THEN /\ pc' = Upd(pc, t, "sh_delhdr")
               /\ UNCHANGED <<rel, cont>>
          ELSE Finish(t)
    /\ UNCHANGED <<cellVars, strong, weak, obj, hdr, state, op, slot, wslot, cur, xcp,
                   eptr, acq, ret, net>>

\* release_weak: references_.load().word() == 0, then _delete_header()
ShReleaseWeakCheck(t) ==
    /\ pc[t] = "rw_check"
    /\ err' = Touch(rel[t].b)
    /\ \E r \in StrongRead(rel[t].b) :
          IF r = PC(0, 0)
          THEN /\ pc' = Upd(pc, t, "sh_delhdr")
               /\ UNCHANGED <<rel, cont>>
          ELSE Finish(t)
    /\ UNCHANGED <<cellVars, strong, weak, obj, hdr, state, op, slot, wslot, cur, xcp,
                   eptr, acq, ret, net>>

\* shareable::operator shared_ptr<T>(): d becomes a handle to the block,
\* made from the address of the block without acquire
ToSharedPtr(t, b) ==
    /\ pc[t] = "idle"
    /\ nops < MaxConversions
    /\ slot[t].d = NullCP
    /\ hdr[b] = "live"
    /\ slot' = SetSlot(t, "d", CP(0, b))
    /\ nops' = nops + 1
    /\ UNCHANGED <<cell, cellAlive, blockVars, pc, op, wslot, cur, xcp, eptr, acq, rel,
                   cont, ret, net>>

NextShareable ==
    \E t \in Threads :
        \/ Defined /\ \E b \in Blocks : ToSharedPtr(t, b)
        \/ Defined /\ Copy(t)
        \/ Defined /\ \E s \in Slots : Drop(t, s)
        \/ Defined /\ MakeWeak(t)
        \/ Defined /\ CopyWeak(t)
        \/ Defined /\ \E s \in WSlots : DropWeak(t, s)
        \/ Defined /\ \E s \in WSlots, r \in WSlots : AssignWeak(t, s, r)
        \/ Defined /\ \E s \in WSlots : AssignWeakShared(t, s)
        \/ Defined /\ AssignWeakAcquire(t)
        \/ Defined /\ SwapWeak(t)
        \/ Defined /\ MoveAssignWeak(t)
        \/ Defined /\ FlowsOffEnd(t)
        \/ Defined /\ ShBeginDeleteObject(t)
        \/ Defined /\ ShEndDeleteObject(t)
        \/ Defined /\ ShDeleteHeaderByObject(t)
        \/ Defined /\ ShReleaseWeakLoad(t)
        \/ Defined /\ ShReleaseWeakCheck(t)
        \/ Defined /\ ShDeleteHeader(t)

\* the block is a shareable; the handles are those of InitWeak
SpecShareable == InitWeak /\ [][NextShareable]_vars

(***************************************************************************)
(* One writer and readers on a cell whose local counter is close to the    *)
(* threshold: every thread loads and destroys what it has loaded, thread 1 *)
(* also makes new objects and stores them.                                 *)
(***************************************************************************)
\* operations on the cell that may be started in one behaviour of the
\* readers and the writer
MaxReaderOps == 8

\* the thread that also stores
IsWriter(t) == t = 1

CanStartReader(t) == pc[t] = "idle" /\ cellAlive /\ nops < MaxReaderOps

\* the cell holds block 1 and has served NormalizeThreshold - 2 loads whose
\* handles were destroyed again
InitReaders ==
    /\ cell = CP(NormalizeThreshold - 2, 1)
    /\ strong = [b \in Blocks |->
                   IF b = 1 THEN PC(NormalizeThreshold - 2, 1) ELSE PC(0, 0)]
    /\ slot = [t \in Threads |-> [s \in Slots |-> NullCP]]
    /\ wslot = [t \in Threads |-> NoWeak]
    /\ cellAlive = TRUE
    /\ weak = [b \in Blocks |-> PC(0, 0)]
    /\ obj = [b \in Blocks |-> IF b = 1 THEN "alive" ELSE "none"]
    /\ hdr = [b \in Blocks |-> IF b = 1 THEN "live" ELSE "free"]
    /\ state = [b \in Blocks |-> Live]
    /\ err = {}
    /\ nops = 0
    /\ InitThreads

NextReaders ==
    \E t \in Threads :
        \/ CanStartReader(t) /\ BeginLoad(t)
        \/ TryLeave(t)
        \/ Unhold(t)
        \/ LoadAcquire(t)
        \/ Return(t)
        \/ \E s \in Slots : Drop(t, s)
        \/ IsWriter(t) /\ \E b \in Blocks : New(t, b)
        \/ IsWriter(t) /\ CanStartReader(t) /\ BeginStoreRvalue(t)
        \/ DeleteObject(t)
        \/ ReleaseDeleteHeader(t)

SpecReaders == InitReaders /\ [][NextReaders]_vars

(***************************************************************************)
(* atomic_paired_counter and paired_counter on their own.  Threads call    *)
(* the operations of one atomic_paired_counter, which is strong[1]; no     *)
(* header, handle or cell exists.  Of a thread, cur is cur_pair (or the    *)
(* value a fetch returned, or the left operand of the arithmetic), eptr    *)
(* the expected passed as a number, rel.cnt the paired_counter passed by   *)
(* the caller (expected, the argument of a fetch, the right operand), net  *)
(* the number passed (desired, the amount of a transfer).                  *)
(***************************************************************************)
\* values of a lane next to zero on both sides; in the c2 lane -1 is
\* 0xFFFFFFFF
LaneValues == {0 - 1, 0, 1}
PairValues == {PC(a, b) : a \in LaneValues, b \in LaneValues}

\* paired_counter::operator+=
PlusAssign(x, r) == PC(x.c1 + r.c1, x.c2 + r.c2)
\* paired_counter::operator-=
MinusAssign(x, r) == PC(x.c1 - r.c1, x.c2 - r.c2)
\* paired_counter::operator+( const paired_counter& r )
Plus(x, r) == PC(x.c1 + r.c1, x.c2 + r.c2)
\* paired_counter::operator+( paired_counter&& r ): return r += *this
PlusRvalue(x, r) == PlusAssign(r, x)
\* paired_counter::operator-( const paired_counter& r )
Minus(x, r) == PC(x.c1 - r.c1, x.c2 - r.c2)
\* paired_counter::operator-( paired_counter&& r ): return r -= *this
MinusRvalue(x, r) == MinusAssign(r, x)

\* the paired_counter made from an int32_t where a paired_counter is
\* expected: paired_counter( uint64_t word ) of the sign-extended number
WordOfInt32(v) == PC(IF v < 0 THEN 0 - 1 ELSE 0, v)
\* the paired_counter made from a uint32_t: the zero-extended number
WordOfUint32(v) == PC(0, v)

CounterCasOps ==
    {"weak_c1", "weak_c1_pair", "weak_c2", "weak_c2_pair",
     "strong_c1", "strong_c1_pair", "strong_c2", "strong_c2_pair"}
IsPairOverload(o) ==
    o \in {"weak_c1_pair", "weak_c2_pair", "strong_c1_pair", "strong_c2_pair"}
IsStrongOverload(o) ==
    o \in {"strong_c1", "strong_c1_pair", "strong_c2", "strong_c2_pair"}
IsC1(o) == o \in {"weak_c1", "weak_c1_pair", "strong_c1", "strong_c1_pair"}
\* get_cnt1() or get_cnt2(), as the overload looks at it
Target(o, x) == IF IsC1(o) THEN x.c1 ELSE x.c2
\* desired as the overloads with a number for expected pass it on
DesiredWord(o, v) == IF IsC1(o) THEN WordOfInt32(v) ELSE WordOfUint32(v)
\* { desired, expected.get_cnt2() } or { expected.get_cnt1(), desired }
DesiredPair(o, e, v) == IF IsC1(o) THEN PC(v, e.c2) ELSE PC(e.c1, v)

InitCounter ==
    /\ \E c \in PairValues :
          strong = [b \in Blocks |-> IF b = 1 THEN c ELSE PC(0, 0)]
    /\ cell = NullCP
    /\ cellAlive = FALSE
    /\ slot = [t \in Threads |-> [s \in Slots |-> NullCP]]
    /\ wslot = [t \in Threads |-> NoWeak]
    /\ weak = [b \in Blocks |-> PC(0, 0)]
    /\ obj = [b \in Blocks |-> "none"]
    /\ hdr = [b \in Blocks |-> "free"]
    /\ state = [b \in Blocks |-> Live]
    /\ err = {}
    /\ nops = 0
    /\ InitThreads

\* a thread calls an operation of the counter
CanCall(t) == pc[t] = "idle" /\ nops < MaxCounterOps

\* fetch_add( arg ) or fetch_sub( arg ): one access of the word
CounterFetch(t) ==
    /\ CanCall(t)
    /\ \E o \in {"fetch_add", "fetch_sub"}, arg \in PairValues :
          /\ op' = Upd(op, t, o)
          /\ rel' = Upd(rel, t, [b |-> NULL, cnt |-> arg])
          /\ strong' = [strong EXCEPT ![1] =
                          IF o = "fetch_add" THEN PCWordAdd(@, arg)
                          ELSE PCWordSub(@, arg)]
    /\ cur' = Upd(cur, t, strong[1])
    /\ pc' = Upd(pc, t, "done")
    /\ nops' = nops + 1
    /\ UNCHANGED <<cell, cellAlive, weak, obj, hdr, state, err, slot, wslot, xcp,
                   eptr, acq, cont, ret, net>>

\* x & y of two numbers in two's complement
RECURSIVE BitAnd(_, _)
BitAnd(x, y) ==
    IF x = 0 \/ y = 0 THEN 0
    ELSE IF x = 0 - 1 THEN y
    ELSE IF y = 0 - 1 THEN x
    ELSE (x % 2) * (y % 2) + 2 * BitAnd(x \div 2, y \div 2)
\* x | y and x ^ y
BitOr(x, y) == x + y - BitAnd(x, y)
BitXor(x, y) == x + y - 2 * BitAnd(x, y)

\* std::atomic<uint64_t>::fetch_and, fetch_or, fetch_xor on the word: no
\* bit leaves its lane
PCWordAnd(a, b) == PC(BitAnd(a.c1, b.c1), BitAnd(a.c2, b.c2))
PCWordOr(a, b) == PC(BitOr(a.c1, b.c1), BitOr(a.c2, b.c2))
PCWordXor(a, b) == PC(BitXor(a.c1, b.c1), BitXor(a.c2, b.c2))

\* fetch_and( arg ), fetch_or( arg ) or fetch_xor( arg ): one access of the
\* word
CounterBitwise(t) ==
    /\ CanCall(t)
    /\ \E o \in {"fetch_and", "fetch_or", "fetch_xor"}, arg \in PairValues :
          /\ op' = Upd(op, t, o)
          /\ rel' = Upd(rel, t, [b |-> NULL, cnt |-> arg])
          /\ strong' = [strong EXCEPT ![1] =
                          CASE o = "fetch_and" -> PCWordAnd(@, arg)
                            [] o = "fetch_or" -> PCWordOr(@, arg)
                            [] o = "fetch_xor" -> PCWordXor(@, arg)]
    /\ cur' = Upd(cur, t, strong[1])
    /\ pc' = Upd(pc, t, "done")
    /\ nops' = nops + 1
    /\ UNCHANGED <<cell, cellAlive, weak, obj, hdr, state, err, slot, wslot, xcp,
                   eptr, acq, cont, ret, net>>

\* store( desired ), or exchange( desired ), which returns the old word
CounterWrite(t) ==
    /\ CanCall(t)
    /\ \E o \in {"store", "exchange"}, desired \in PairValues :
          /\ op' = Upd(op, t, o)
          /\ rel' = Upd(rel, t, [b |-> NULL, cnt |-> desired])
          /\ strong' = [strong EXCEPT ![1] = desired]
          /\ cur' = Upd(cur, t, IF o = "exchange" THEN strong[1] ELSE PC(0, 0))
    /\ pc' = Upd(pc, t, "done")
    /\ nops' = nops + 1
    /\ UNCHANGED <<cell, cellAlive, weak, obj, hdr, state, err, slot, wslot, xcp,
                   eptr, acq, cont, ret, net>>

\* compare_exchange_weak( expected, desired ) or compare_exchange_strong(
\* expected, desired ) on the whole word: the counter becomes desired when
\* it equals expected; otherwise, and when the weak one fails spuriously,
\* expected becomes the counter
CounterCasWord(t) ==
    /\ CanCall(t)
    /\ \E o \in {"cas_weak", "cas_strong"}, expected \in PairValues,
          desired \in PairValues :
          /\ op' = Upd(op, t, o)
          /\ \/ /\ strong[1] = expected
                /\ strong' = [strong EXCEPT ![1] = desired]
                /\ rel' = Upd(rel, t, [b |-> NULL, cnt |-> expected])
                /\ ret' = Upd(ret, t, "true")
             \/ /\ strong[1] # expected \/ o = "cas_weak"
                /\ rel' = Upd(rel, t, [b |-> NULL, cnt |-> strong[1]])
                /\ ret' = Upd(ret, t, "false")
                /\ UNCHANGED strong
    /\ pc' = Upd(pc, t, "done")
    /\ nops' = nops + 1
    /\ UNCHANGED <<cell, cellAlive, weak, obj, hdr, state, err, slot, wslot, cur, xcp,
                   eptr, acq, cont, net>>

\* fetch_transfer( arg ): fetch_add( { -arg, arg } ) for arg >= 0,
\* fetch_sub( { arg, -arg } ) otherwise
Transferred(c, n) ==
    IF n >= 0 THEN PCWordAdd(c, PC(0 - n, n)) ELSE PCWordSub(c, PC(n, 0 - n))

FetchTransfer(t) ==
    /\ CanCall(t)
    /\ \E n \in LaneValues :
          /\ net' = Upd(net, t, n)
          /\ strong' = [strong EXCEPT ![1] = Transferred(@, n)]
    /\ op' = Upd(op, t, "fetch_transfer")
    /\ cur' = Upd(cur, t, strong[1])
    /\ pc' = Upd(pc, t, "done")
    /\ nops' = nops + 1
    /\ UNCHANGED <<cell, cellAlive, weak, obj, hdr, state, err, slot, wslot, xcp,
                   eptr, acq, rel, cont, ret>>

\* a call of compare_exchange_{weak,strong}_{c1,c2}: expected is a number
\* or a paired_counter of the caller
StartCounterCas(t) ==
    /\ CanCall(t)
    /\ \E o \in CounterCasOps, v \in LaneValues :
          /\ op' = Upd(op, t, o)
          /\ net' = Upd(net, t, v)
          /\ IF IsPairOverload(o)
             THEN /\ \E e \in PairValues :
                        rel' = Upd(rel, t, [b |-> NULL, cnt |-> e])
                  /\ pc' = Upd(pc, t, "c_cas")
                  /\ UNCHANGED eptr
             ELSE /\ \E e \in LaneValues : eptr' = Upd(eptr, t, e)
                  /\ pc' = Upd(pc, t, "c_load")
                  /\ UNCHANGED rel
    /\ nops' = nops + 1
    /\ UNCHANGED <<cell, cellAlive, blockVars, slot, wslot, cur, xcp, acq, cont, ret>>

\* the call returns r
CounterCasReturns(t, r) ==
    /\ pc' = Upd(pc, t, "done")
    /\ ret' = Upd(ret, t, r)

\* after cur_pair has been read as c: if( cur_pair.get_cntN() != expected )
\* { expected = cur_pair.get_cntN(); return false; }
TargetDiffers(t, c) ==
    /\ Target(op[t], c) # eptr[t]
    /\ eptr' = Upd(eptr, t, Target(op[t], c))
    /\ CounterCasReturns(t, "false")

\* cur_pair = counter_.load( failure ) and the first test
CounterCasLoad(t) ==
    /\ pc[t] = "c_load"
    /\ cur' = Upd(cur, t, strong[1])
    /\ \/ TargetDiffers(t, strong[1])
       \/ /\ Target(op[t], strong[1]) = eptr[t]
          /\ pc' = Upd(pc, t, "c_cas")
          /\ UNCHANGED <<eptr, ret>>
    /\ UNCHANGED <<cellVars, blockVars, op, slot, wslot, xcp, acq, rel, cont, net>>

\* the overloads with a number for expected: the compare_exchange of
\* cur_pair against desired.  The weak overload repeats it until it
\* succeeds or the target lane differs; the strong overload returns what
\* its one compare_exchange_strong returns.
CounterCasNumber(t) ==
    /\ pc[t] = "c_cas"
    /\ ~IsPairOverload(op[t])
    /\ \/ /\ strong[1] = cur[t]
          /\ strong' = [strong EXCEPT ![1] = DesiredWord(op[t], net[t])]
          /\ CounterCasReturns(t, "true")
          /\ UNCHANGED <<cur, eptr>>
       \/ /\ strong[1] # cur[t] \/ ~IsStrongOverload(op[t])
          /\ cur' = Upd(cur, t, strong[1])
          /\ IF IsStrongOverload(op[t])
             THEN CounterCasReturns(t, "false") /\ UNCHANGED eptr
             ELSE \/ TargetDiffers(t, strong[1])
                  \/ /\ Target(op[t], strong[1]) = eptr[t]
                     /\ UNCHANGED <<pc, ret, eptr>>
          /\ UNCHANGED strong
    /\ UNCHANGED <<cellVars, weak, obj, hdr, state, err, op, slot, wslot, xcp, acq,
                   rel, cont, net>>

\* the overloads with a paired_counter for expected: the compare_exchange
\* of expected against expected with the target lane replaced.  The weak
\* overload returns what its one compare_exchange_weak returns; the strong
\* overload makes cur_pair a copy of expected in every pass and repeats
\* until the CAS succeeds or the target lane differs.
CounterCasPair(t) ==
    /\ pc[t] = "c_cas"
    /\ IsPairOverload(op[t])
    /\ LET e == rel[t].cnt
       IN  \/ /\ strong[1] = e
              /\ strong' = [strong EXCEPT ![1] = DesiredPair(op[t], e, net[t])]
              /\ CounterCasReturns(t, "true")
              /\ UNCHANGED rel
           \/ /\ strong[1] # e \/ ~IsStrongOverload(op[t])
              /\ IF IsStrongOverload(op[t])
                    /\ Target(op[t], strong[1]) = Target(op[t], e)
                 THEN UNCHANGED <<pc, ret, rel>>
                 ELSE /\ rel' = Upd(rel, t, [b |-> NULL, cnt |-> strong[1]])
                      /\ CounterCasReturns(t, "false")
              /\ UNCHANGED strong
    /\ UNCHANGED <<cellVars, weak, obj, hdr, state, err, op, slot, wslot, cur, xcp,
                   eptr, acq, cont, net>>

\* the caller has two paired_counter a and b
StartArith(t) ==
    /\ CanCall(t)
    /\ \E o \in {"plus_minus", "plus_minus_rvalue"}, a \in PairValues, b \in PairValues :
          /\ op' = Upd(op, t, o)
          /\ cur' = Upd(cur, t, a)
          /\ rel' = Upd(rel, t, [b |-> NULL, cnt |-> b])
    /\ pc' = Upd(pc, t, "arith")
    /\ nops' = nops + 1
    /\ UNCHANGED <<cell, cellAlive, blockVars, slot, wslot, xcp, eptr, acq, cont, ret,
                   net>>

\* a = ( a + b ) - b, the right operands passed as written or as rvalues
\* that hold b
Arith(t) ==
    /\ pc[t] = "arith"
    /\ LET a == cur[t]
           b == rel[t].cnt
       IN  cur' = Upd(cur, t, IF op[t] = "plus_minus"
                              THEN Minus(Plus(a, b), b)
                              ELSE MinusRvalue(PlusRvalue(a, b), b))
    /\ pc' = Upd(pc, t, "done")
    /\ UNCHANGED <<cellVars, blockVars, op, slot, wslot, xcp, eptr, acq, rel, cont,
                   ret, net>>

\* the call has returned; the caller forgets its variables
CounterReturn(t) ==
    /\ pc[t] = "done"
    /\ pc' = Upd(pc, t, "idle")
    /\ op' = Upd(op, t, "none")
    /\ cur' = Upd(cur, t, PC(0, 0))
    /\ eptr' = Upd(eptr, t, NULL)
    /\ rel' = Upd(rel, t, NoRel)
    /\ ret' = Upd(ret, t, "none")
    /\ net' = Upd(net, t, 0)
    /\ UNCHANGED <<cellVars, blockVars, slot, wslot, xcp, acq, cont>>

NextCounter ==
    \E t \in Threads :
        \/ CounterFetch(t)
        \/ CounterBitwise(t)
        \/ CounterWrite(t)
        \/ CounterCasWord(t)
        \/ FetchTransfer(t)
        \/ StartCounterCas(t)
        \/ CounterCasLoad(t)
        \/ CounterCasNumber(t)
        \/ CounterCasPair(t)
        \/ CounterReturn(t)

SpecCounter == InitCounter /\ [][NextCounter]_vars

\* the arithmetic of paired_counter alone: no counter is shared
InitArith == InitCounter /\ strong[1] = PC(0, 0)

NextArith ==
    \E t \in Threads :
        \/ StartArith(t)
        \/ Arith(t)
        \/ CounterReturn(t)

SpecArith == InitArith /\ [][NextArith]_vars

(***************************************************************************)
(* atomic_counted_ptr on its own.  Threads call the arithmetic of one      *)
(* atomic_counted_ptr, which is cell; its pointer is never dereferenced.   *)
(* Of a thread, xcp is the counted pointer a fetch returned and net the    *)
(* number passed or returned (eptr the number passed, when net is the      *)
(* number returned).                                                       *)
(***************************************************************************)
\* counters at the ends of the int16_t range and next to zero
CounterValues == {0 - 32768, 0 - 1, 1, 32767}

\* atomic_counted_ptr::fetch_sub: only the counter lane changes
CPFetchSub(w, n) == CP(Wrap16(w.ctr - n), w.ptr)

\* the int16_t returned by operator++() / operator--(): the counter that
\* fetch_add / fetch_sub returned, plus or minus 1
PreIncrement(old) == Wrap16(old.ctr + 1)
PreDecrement(old) == Wrap16(old.ctr - 1)
\* the int16_t returned by operator++( int ) / operator--( int ): the
\* counter that fetch_add / fetch_sub returned
PostIncrement(old) == old.ctr
PostDecrement(old) == old.ctr

InitCountedPtr ==
    /\ \E c \in CounterValues \cup {0}, p \in {NULL} \cup Blocks : cell = CP(c, p)
    /\ cellAlive = TRUE
    /\ strong = [b \in Blocks |-> PC(0, 0)]
    /\ slot = [t \in Threads |-> [s \in Slots |-> NullCP]]
    /\ wslot = [t \in Threads |-> NoWeak]
    /\ weak = [b \in Blocks |-> PC(0, 0)]
    /\ obj = [b \in Blocks |-> "none"]
    /\ hdr = [b \in Blocks |-> "free"]
    /\ state = [b \in Blocks |-> Live]
    /\ err = {}
    /\ nops = 0
    /\ InitThreads

\* fetch_add( arg ) or fetch_sub( arg ): one access of the word
CountedPtrFetch(t) ==
    /\ CanCall(t)
    /\ \E o \in {"cp_fetch_add", "cp_fetch_sub"}, n \in CounterValues :
          /\ op' = Upd(op, t, o)
          /\ net' = Upd(net, t, n)
          /\ cell' = IF o = "cp_fetch_add" THEN CPFetchAdd(cell, n)
                                           ELSE CPFetchSub(cell, n)
    /\ xcp' = Upd(xcp, t, cell)
    /\ pc' = Upd(pc, t, "done")
    /\ nops' = nops + 1
    /\ UNCHANGED <<cellAlive, blockVars, slot, wslot, cur, eptr, acq, rel, cont, ret>>

\* ++p, p++, --p, p--: fetch_add( 1 ) or fetch_sub( 1 ) and the number
\* returned
CountedPtrStep(t) ==
    /\ CanCall(t)
    /\ \E o \in {"pre_inc", "post_inc", "pre_dec", "post_dec"} :
          /\ op' = Upd(op, t, o)
          /\ cell' = IF o \in {"pre_inc", "post_inc"} THEN CPFetchAdd(cell, 1)
                                                      ELSE CPFetchSub(cell, 1)
          /\ net' = Upd(net, t, CASE o = "pre_inc" -> PreIncrement(cell)
                                  [] o = "post_inc" -> PostIncrement(cell)
                                  [] o = "pre_dec" -> PreDecrement(cell)
                                  [] o = "post_dec" -> PostDecrement(cell))
    /\ xcp' = Upd(xcp, t, cell)
    /\ pc' = Upd(pc, t, "done")
    /\ nops' = nops + 1
    /\ UNCHANGED <<cellAlive, blockVars, slot, wslot, cur, eptr, acq, rel, cont, ret>>

\* atomic_counted_ptr::fetch_and, fetch_or, fetch_xor: the argument is
\* applied to the counter lane, the pointer lane stays as it is
CPFetchAnd(w, n) == CP(BitAnd(w.ctr, n), w.ptr)
CPFetchOr(w, n) == CP(BitOr(w.ctr, n), w.ptr)
CPFetchXor(w, n) == CP(BitXor(w.ctr, n), w.ptr)

\* numbers passed to the bitwise operations
MaskValues == {0 - 1, 0, 1, 2}

\* fetch_and( arg ), fetch_or( arg ) or fetch_xor( arg ): one access of the
\* word
CountedPtrBitwise(t) ==
    /\ CanCall(t)
    /\ \E o \in {"cp_fetch_and", "cp_fetch_or", "cp_fetch_xor"}, n \in MaskValues :
          /\ op' = Upd(op, t, o)
          /\ net' = Upd(net, t, n)
          /\ cell' = CASE o = "cp_fetch_and" -> CPFetchAnd(cell, n)
                        [] o = "cp_fetch_or" -> CPFetchOr(cell, n)
                        [] o = "cp_fetch_xor" -> CPFetchXor(cell, n)
    /\ xcp' = Upd(xcp, t, cell)
    /\ pc' = Upd(pc, t, "done")
    /\ nops' = nops + 1
    /\ UNCHANGED <<cellAlive, blockVars, slot, wslot, cur, eptr, acq, rel, cont, ret>>

\* the int16_t returned by operator+=, -=, &=, |=, ^=: the counter that the
\* fetch returned, combined with arg once more
AddAssign(old, n) == Wrap16(old.ctr + n)
SubAssign(old, n) == Wrap16(old.ctr - n)
AndAssign(old, n) == BitAnd(old.ctr, n)
OrAssign(old, n) == BitOr(old.ctr, n)
XorAssign(old, n) == BitXor(old.ctr, n)

\* p += arg, p -= arg, p &= arg, p |= arg, p ^= arg: the fetch and the
\* number returned; eptr is the number passed
CountedPtrAssignOp(t) ==
    /\ CanCall(t)
    /\ \/ \E o \in {"add_assign", "sub_assign"}, n \in CounterValues :
             /\ op' = Upd(op, t, o)
             /\ eptr' = Upd(eptr, t, n)
             /\ cell' = IF o = "add_assign" THEN CPFetchAdd(cell, n)
                                            ELSE CPFetchSub(cell, n)
             /\ net' = Upd(net, t, IF o = "add_assign" THEN AddAssign(cell, n)
                                                       ELSE SubAssign(cell, n))
       \/ \E o \in {"and_assign", "or_assign", "xor_assign"}, n \in MaskValues :
             /\ op' = Upd(op, t, o)
             /\ eptr' = Upd(eptr, t, n)
             /\ cell' = CASE o = "and_assign" -> CPFetchAnd(cell, n)
                           [] o = "or_assign" -> CPFetchOr(cell, n)
                           [] o = "xor_assign" -> CPFetchXor(cell, n)
             /\ net' = Upd(net, t, CASE o = "and_assign" -> AndAssign(cell, n)
                                     [] o = "or_assign" -> OrAssign(cell, n)
                                     [] o = "xor_assign" -> XorAssign(cell, n))
    /\ xcp' = Upd(xcp, t, cell)
    /\ pc' = Upd(pc, t, "done")
    /\ nops' = nops + 1
    /\ UNCHANGED <<cellAlive, blockVars, slot, wslot, cur, acq, rel, cont, ret>>

\* counted pointers a caller passes
CountedPtrValues == {CP(c, p) : c \in {0 - 1, 0, 32767}, p \in {NULL, 1}}

\* store( desired ) and operator=( desired ), or exchange( desired ), which
\* returns the old word
CountedPtrWrite(t) ==
    /\ CanCall(t)
    /\ \E o \in {"cp_store", "cp_assign", "cp_exchange"}, desired \in CountedPtrValues :
          /\ op' = Upd(op, t, o)
          /\ cell' = desired
    /\ xcp' = Upd(xcp, t, IF op'[t] = "cp_exchange" THEN cell ELSE NullCP)
    /\ pc' = Upd(pc, t, "done")
    /\ nops' = nops + 1
    /\ UNCHANGED <<cellAlive, blockVars, slot, wslot, cur, eptr, acq, rel, cont, ret,
                   net>>

\* compare_exchange_weak( expected, desired ) or compare_exchange_strong(
\* expected, desired ): the word becomes desired when it equals expected;
\* otherwise, and when the weak one fails spuriously, expected becomes the
\* word; xcp is expected after the call
CountedPtrCas(t) ==
    /\ CanCall(t)
    /\ \E o \in {"cp_cas_weak", "cp_cas_strong"}, expected \in CountedPtrValues,
          desired \in CountedPtrValues :
          /\ op' = Upd(op, t, o)
          /\ \/ /\ cell = expected
                /\ cell' = desired
                /\ xcp' = Upd(xcp, t, expected)
                /\ ret' = Upd(ret, t, "true")
             \/ /\ cell # expected \/ o = "cp_cas_weak"
                /\ xcp' = Upd(xcp, t, cell)
                /\ ret' = Upd(ret, t, "false")
                /\ UNCHANGED cell
    /\ pc' = Upd(pc, t, "done")
    /\ nops' = nops + 1
    /\ UNCHANGED <<cellAlive, blockVars, slot, wslot, cur, eptr, acq, rel, cont, net>>

NextCountedPtr ==
    \E t \in Threads :
        \/ CountedPtrFetch(t)
        \/ CountedPtrStep(t)
        \/ CountedPtrBitwise(t)
        \/ CountedPtrAssignOp(t)
        \/ CountedPtrWrite(t)
        \/ CountedPtrCas(t)
        \/ Return(t)

SpecCountedPtr == InitCountedPtr /\ [][NextCountedPtr]_vars

(***************************************************************************)
(* Shared and weak handles with allocation: a new header takes the lowest  *)
(* free address, which may be the address of a header freed before, so     *)
(* that a handle left behind by a freed header references the new one.     *)
(* A behaviour is followed until a use lane has wrapped.                   *)
(***************************************************************************)
\* the use lane of a counter has been taken below zero
Wrapped == \E b \in Blocks : strong[b].c2 < 0 \/ weak[b].c2 < 0

\* addresses at which the headers made in these behaviours are allocated
NewAddresses == 2

\* the threads construct their weak_ptr variable w, swap it with v and
\* destroy both
NextWeakNew ==
    \E t \in Threads :
        \/ Defined /\ ~Wrapped /\ \E b \in 1..NewAddresses : New(t, b)
        \/ Defined /\ ~Wrapped /\ Copy(t)
        \/ Defined /\ ~Wrapped /\ Swap(t)
        \/ Defined /\ ~Wrapped /\ \E s \in Slots : Drop(t, s)
        \/ Defined /\ ~Wrapped /\ MakeWeak(t)
        \/ Defined /\ ~Wrapped /\ \E s \in WSlots : DropWeak(t, s)
        \/ Defined /\ ~Wrapped /\ SwapWeak(t)
        \/ Defined /\ ~Wrapped /\ ReleaseWeakCheck(t)
        \/ Defined /\ ~Wrapped /\ StartLock(t)
        \/ Defined /\ ~Wrapped /\ WeakLockCas(t)
        \/ Defined /\ ~Wrapped /\ DeleteObject(t)
        \/ Defined /\ ~Wrapped /\ ReleaseDeleteHeader(t)
        \/ Defined /\ ~Wrapped /\ Return(t)

SpecWeakNew == InitWeak /\ [][NextWeakNew]_vars

(***************************************************************************)
(* Who references a block.                                                 *)
(***************************************************************************)
\* the shared_ptr variables that reference block b
HandlesOn(b) == {<<t, s>> \in Threads \X Slots : slot[t][s].ptr = b}

\* a release of thread t on block b has been decided and its fetch_sub has
\* not been executed yet
PendingRelease(t, b) == pc[t] = "rel" /\ rel[t].b = b

\* thread t has entered the cell observing block b and has not yet taken
\* its credit on the block
InWindow(t, b) ==
    /\ xcp[t].ptr = b
    /\ \/ pc[t] \in {"norm", "unhold", "ld_acq", "cf_acq", "cfc_acq"}
       \/ pc[t] \in {"rel", "delobj", "delhdr"} /\ cont[t] \in {"cf_acq", "cfc_acq"}

CellHolds(b) == cellAlive /\ cell.ptr = b

Protected(b) ==
    \/ HandlesOn(b) # {}
    \/ CellHolds(b)
    \/ \E t \in Threads : PendingRelease(t, b) \/ InWindow(t, b)

Quiescent == \A t \in Threads : pc[t] = "idle"

\* C1: the object of a block is alive, and its header allocated, as long as
\* a handle references the block, the cell holds it, or a reader that
\* entered the cell observing it has not yet taken its credit.
NoUseAfterFree ==
    /\ err = {}
    /\ \A b \in Blocks : Protected(b) => obj[b] = "alive" /\ hdr[b] = "live"

\* a reader is between its enter and its acquire on a block that the cell
\* and all handles have given up already
ReaderAloneOnBlock ==
    \E t \in Threads, b \in Blocks :
        /\ pc[t] = "ld_acq" /\ xcp[t].ptr = b
        /\ HandlesOn(b) = {} /\ ~CellHolds(b)
        /\ \A u \in Threads : ~PendingRelease(u, b)
        /\ strong[b].c2 = 0
        /\ obj[b] = "alive"
\* thread t is about to run, or runs, the destruction of block b
Destroying(t, b) == pc[t] = "delobj" /\ rel[t].b = b
Freeing(t, b) == pc[t] = "delhdr" /\ rel[t].b = b

DestroyStateOk ==
    /\ "object_destroyed_twice" \notin err
    /\ \A b \in Blocks, t \in Threads :
          Destroying(t, b) =>
              /\ strong[b] = PC(0, 0)
              /\ obj[b] = "alive"
              /\ \A u \in Threads \ {t} : ~Destroying(u, b) /\ ~Freeing(u, b)

DestroyStepOk ==
    /\ \A t \in Threads :
          (pc[t] # "delobj" /\ pc'[t] = "delobj") =>
              /\ strong[rel'[t].b] = rel'[t].cnt
              /\ strong'[rel'[t].b] = PC(0, 0)
    /\ \A b \in Blocks :
          (hdr[b] = "live" /\ strong[b] # PC(0, 0) /\ strong'[b] = PC(0, 0)) =>
              \E t \in Threads : pc[t] # "delobj" /\ Destroying(t, b)'
    /\ \A b \in Blocks :
          (hdr[b] = "live" /\ strong[b] = PC(0, 0)) => strong'[b] = PC(0, 0)

\* C2: destroy_object runs at most once for a block, only in the release
\* whose fetch_sub found the strong counter equal to the released amount
\* (so that it became PC(0,0)); a strong counter that is PC(0,0) is not
\* changed again while the header lives, and no destruction starts while
\* the counter differs from PC(0,0) in either lane.
DestroyOnlyAtZero == []DestroyStateOk /\ [][DestroyStepOk]_vars

\* a release that returns observer credits (c1 > 0) destroys the object
DestroyByCreditRelease ==
    \E t \in Threads : pc[t] = "delobj" /\ rel[t].cnt.c1 > 0

\* C4: in a quiescent state the objects that are alive are those of the
\* blocks that a handle or the cell references.
NoLeak ==
    Quiescent =>
        \A b \in Blocks : obj[b] = "alive" => HandlesOn(b) # {} \/ CellHolds(b)
(***************************************************************************)
(* Steps of one thread, and the account of the use lane.                   *)
(***************************************************************************)
Local(t) == <<pc[t], op[t], slot[t], wslot[t], cur[t], xcp[t], eptr[t], acq[t],
              rel[t], cont[t], ret[t], net[t]>>

\* the step is a step of thread t
Acts(t) == Local(t)' # Local(t)

\* no thread is inside an operation or a release
Settled == \A t \in Threads : pc[t] \in {"idle", "done"}

\* the references that handles and the cell hold on block b
Holders(b) == Cardinality(HandlesOn(b)) + (IF CellHolds(b) THEN 1 ELSE 0)

UseLaneBalanced(b) == hdr[b] = "live" /\ strong[b].c2 = Holders(b)

\* the step in which the compare_exchange of thread t succeeds
CasSuccessStep(t) == IsCas(op[t]) /\ ret[t] # "true" /\ ret'[t] = "true"

CasLinearStep ==
    \A t \in Threads :
        CasSuccessStep(t) =>
            /\ pc[t] = "cas"
            /\ cell.ptr = eptr[t]
            /\ slot[t].e.ptr = eptr[t]
            /\ cell'.ptr = slot[t].d.ptr
            /\ \A u \in Threads \ {t} : ~CasSuccessStep(u) /\ ~Acts(u)

\* C5: a compare_exchange returns true only in the step of its 64-bit CAS,
\* in which the cell's pointer is the block of expected and becomes the
\* block of desired; no two calls succeed in the same step.
CasLinearizable == [][CasLinearStep]_vars

\* two calls with distinct desired: one has succeeded on a non-null block,
\* the other has failed and its expected is the block the first installed
CasSucceededAndObserved ==
    \E t \in Threads, u \in Threads :
        /\ t # u
        /\ pc[t] = "done" /\ IsCas(op[t]) /\ ret[t] = "true" /\ eptr[t] # NULL
        /\ pc[u] = "done" /\ IsCas(op[u]) /\ ret[u] = "false"
        /\ cell.ptr # NULL /\ cell.ptr # eptr[t]
        /\ slot[u].e.ptr = cell.ptr

IsStrongCas(o) == IsCas(o) /\ ~IsWeakCas(o)

StrongCasFailed(t) == pc[t] = "done" /\ IsStrongCas(op[t]) /\ ret[t] = "false"

CasFailState ==
    \A t \in Threads :
        StrongCasFailed(t) =>
            /\ xcp[t].ptr # eptr[t]
            /\ slot[t].e = CP(0, xcp[t].ptr)
            /\ xcp[t].ptr # NULL => obj[xcp[t].ptr] = "alive"
            /\ Settled =>
                  \A b \in {xcp[t].ptr, eptr[t]} \ {NULL} :
                      hdr[b] = "live" => UseLaneBalanced(b)

CasFailStep ==
    \A t \in Threads :
        /\ (Acts(t) /\ IsStrongCas(op'[t]) /\ ret'[t] # "true") =>
              cell'.ptr = cell.ptr
        /\ (IsStrongCas(op'[t]) /\ xcp'[t] # xcp[t]) => xcp'[t].ptr = cell.ptr
        /\ (IsStrongCas(op[t]) /\ ret[t] = "false") => ret'[t] # "true"

\* C6: when compare_exchange_strong has returned false, the pointer it
\* observed in the cell differs from the block of expected, expected is a
\* handle with local counter 0 to the observed block, whose object is
\* alive, the use lane of the observed block and of the former block of
\* expected count exactly the handles and the cell, and no step of the
\* call has changed the cell's pointer.
CasStrongFailure == []CasFailState /\ [][CasFailStep]_vars

\* a strong compare_exchange has failed with expected and observed block
\* both non-null
StrongCasReplacedExpected ==
    \E t \in Threads :
        /\ StrongCasFailed(t) /\ Settled
        /\ eptr[t] # NULL /\ xcp[t].ptr # NULL
LoadReturned(t) == pc[t] = "done" /\ op[t] = "load"

LoadState ==
    \A t \in Threads :
        LoadReturned(t) =>
            /\ slot[t].e = CP(0, xcp[t].ptr)
            /\ xcp[t].ptr # NULL =>
                  obj[xcp[t].ptr] = "alive" /\ hdr[xcp[t].ptr] = "live"

LoadStep ==
    \A t \in Threads :
        /\ (Acts(t) /\ op'[t] = "load") => cell'.ptr = cell.ptr
        /\ (op[t] # "load" /\ op'[t] = "load") =>
              xcp'[t].ptr = cell.ptr /\ cell' = CP(Wrap16(cell.ctr + 1), cell.ptr)
        /\ (op[t] = "load" /\ op'[t] = "load") => xcp'[t].ptr = xcp[t].ptr
        /\ (LoadReturned(t) /\ Acts(t)) => slot'[t] = slot[t]

\* C7: load returns a handle with local counter 0 to the block the cell
\* held in the step of the load's fetch-add (the empty handle if the cell
\* was empty); no step of load changes the cell's pointer; the object of
\* the returned block is alive while load has returned.
LoadLinearizable == []LoadState /\ [][LoadStep]_vars

\* load has returned a block that the cell has given up meanwhile and
\* that only the returned handle references
LoadedBlockLeftCell ==
    \E t \in Threads :
        /\ LoadReturned(t) /\ xcp[t].ptr # NULL
        /\ cell.ptr # xcp[t].ptr
        /\ HandlesOn(xcp[t].ptr) = {<<t, "e">>}
        /\ Settled

IsWrite(o) == o \in {"store_c", "xchg_c", "xchg_r"}

ReplaceStep ==
    \A t \in Threads :
        /\ (op'[t] = "xchg_r" /\ op[t] # "xchg_r") =>
              /\ slot'[t].e = cell /\ cell' = slot[t].d /\ slot'[t].d = NullCP
        /\ (op[t] = "xchg_c" /\ pc[t] = "write" /\ Acts(t)) =>
              /\ slot'[t].e = cell /\ cell' = CP(0, slot[t].d.ptr)
              /\ pc'[t] = "done"
        /\ (op[t] = "store_c" /\ pc[t] = "write" /\ Acts(t)) =>
              /\ cell' = CP(0, slot[t].d.ptr)
              /\ cell.ptr # NULL => rel'[t] = [b |-> cell.ptr, cnt |-> PC(cell.ctr, 1)]
        /\ (IsWrite(op[t]) /\ IsWrite(op'[t]) /\ pc[t] # "write" /\ Acts(t)) =>
              cell' = cell

CellReferencesKept ==
    /\ "object_destroyed_twice" \notin err
    /\ Settled => \A b \in Blocks : hdr[b] = "live" => UseLaneBalanced(b)
    /\ Settled => \A b \in Blocks : Holders(b) > 0 => hdr[b] = "live"

\* C8: store and exchange replace the content of the cell in one step, in
\* which exchange takes over the content the cell held; whenever no
\* operation is in progress the use lane of every block counts exactly the
\* handles and the cell that reference it, so that no reference placed in the
\* cell is lost or released twice.
ReplaceAtomic == []CellReferencesKept /\ [][ReplaceStep]_vars

\* an exchange has returned one block and left another one in the cell
ExchangedBlocks ==
    \E t \in Threads :
        /\ pc[t] = "done" /\ op[t] \in {"xchg_c", "xchg_r"} /\ Settled
        /\ slot[t].e.ptr # NULL /\ cell.ptr # NULL /\ cell.ptr # slot[t].e.ptr

ConstCasReturned(t) ==
    pc[t] = "done" /\ IsConstCas(op[t]) /\ slot[t].d.ptr # NULL

\* C9 as stated: the call changes strong.c2 of desired's block by +1 if it
\* returns true and by 0 if it returns false
ConstCasNetAsStated ==
    \A t \in Threads :
        ConstCasReturned(t) => net[t] = (IF ret[t] = "true" THEN 1 ELSE 0)

ConstCasNet ==
    \A t \in Threads :
        ConstCasReturned(t) =>
            net[t] = (IF ret[t] = "true" THEN 1 ELSE 0)
                     + (IF ret[t] = "false" /\ xcp[t].ptr = slot[t].d.ptr THEN 1 ELSE 0)
                     - (IF eptr[t] = slot[t].d.ptr THEN 1 ELSE 0)

ConstCasStep ==
    \A t \in Threads :
        /\ (Acts(t) /\ IsConstCas(op'[t])) => slot'[t].d = slot[t].d
        /\ (IsConstCas(op[t]) /\ ~acq[t] /\ acq'[t] /\ slot[t].d.ptr # NULL) =>
              /\ strong'[slot[t].d.ptr].c2 = strong[slot[t].d.ptr].c2 + 1
              /\ strong'[slot[t].d.ptr].c1 = strong[slot[t].d.ptr].c1
        /\ (IsConstCas(op[t]) /\ pc[t] = "cas" /\ Acts(t)) => acq[t]
        /\ (IsConstCas(op[t]) /\ CasSuccessStep(t)) =>
              /\ acq[t]
              /\ cell' = CP(0, slot[t].d.ptr)
              /\ eptr[t] # NULL =>
                    rel'[t] = [b |-> eptr[t], cnt |-> PC(cell.ctr, 1)]
              /\ eptr[t] = NULL => pc'[t] = "done"

\* C9: a compare_exchange with desired by const reference leaves desired
\* unmodified, has incremented strong.c2 of desired's block by exactly 1
\* before a CAS of the call is executed, and on success releases the former
\* content of the cell once with PC(old_ctr, 1); on return it has changed
\* strong.c2 of desired's block by +1 if it returned true, by +1 if it
\* returned false having observed desired's block (which expected now
\* references), and by -1 if the block of expected was desired's block
\* (whose reference the call released).
ConstCasCredit == []ConstCasNet /\ [][ConstCasStep]_vars

\* a call with desired by const reference has failed after it had
\* acquired the credit for desired
ConstCasFailedAfterAcquire ==
    \E t \in Threads :
        /\ ConstCasReturned(t) /\ ret[t] = "false" /\ acq[t]
        /\ eptr[t] # slot[t].d.ptr /\ xcp[t].ptr # slot[t].d.ptr
\* C3 as stated: the header of a block is freed once, after the object has
\* been destroyed, and no field of the header is accessed after that.
HeaderFreedOnceAfterObject ==
    err \cap {"header_freed_twice", "header_freed_before_object",
              "header_use_after_free"} = {}

LockReturned(t, r) == pc[t] = "done" /\ op[t] = "lock" /\ ret[t] = r

LockState ==
    /\ "object_destroyed_twice" \notin err
    /\ err = {} =>
          /\ \A b \in Blocks :
                HandlesOn(b) # {} => obj[b] = "alive" /\ hdr[b] = "live"
          /\ \A t \in Threads :
                /\ LockReturned(t, "locked") => slot[t].d = CP(0, wslot[t].w.ptr)
                /\ LockReturned(t, "null") =>
                      /\ slot[t].d = NullCP
                      /\ strong[wslot[t].w.ptr] = PC(0, 0)
                      /\ \/ obj[wslot[t].w.ptr] = "destroyed"
                         \/ \E u \in Threads : Destroying(u, wslot[t].w.ptr)

LockStep ==
    \A t \in Threads :
        err = {} =>
            /\ (ret[t] # "locked" /\ ret'[t] = "locked") =>
                  /\ strong[wslot[t].w.ptr].c2 > 0
                  /\ strong'[wslot[t].w.ptr] =
                         PC(strong[wslot[t].w.ptr].c1, strong[wslot[t].w.ptr].c2 + 1)
                  /\ obj[wslot[t].w.ptr] = "alive"
                  /\ \A u \in Threads : ~Destroying(u, wslot[t].w.ptr)
            /\ (ret[t] # "null" /\ ret'[t] = "null") =>
                  strong[wslot[t].w.ptr].c2 = 0 /\ strong' = strong
            /\ \A b \in Blocks :
                  (obj[b] = "alive" /\ obj'[b] # "alive") => HandlesOn(b)' = {}

\* C10: as long as no header has been freed while a shared or weak handle
\* references it, before its object is destroyed, or twice, weak_ptr::lock
\* returns a handle only in a step in which strong.c2 of the block is
\* positive and which increments it, the object being alive and not about
\* to be destroyed, and the object is not destroyed while a handle
\* references the block; lock returns null only when strong is PC(0,0), and
\* then the object has been destroyed or is being destroyed by the one
\* release that found the counter equal to its amount; no object is
\* destroyed twice.
LockOrDestroy == []LockState /\ [][LockStep]_vars

\* lock has returned null while the thread that released the last strong
\* reference has not destroyed the object yet
LockLostRace ==
    \E t \in Threads, u \in Threads :
        /\ LockReturned(t, "null")
        /\ Destroying(u, wslot[t].w.ptr)
        /\ obj[wslot[t].w.ptr] = "alive"

LockFound(t, b) ==
    /\ pc[t] = "done" /\ wslot[t].w.ptr = b
    /\ \/ op[t] = "lock" /\ ret[t] = "null"
       \/ op[t] = "expired" /\ ret[t] = "expired"

\* C11 as stated: while a lock that returned null, or an expired that
\* returned true, has not been left, no lock on a weak handle to the same
\* block returns a handle and no expired on it returns false (on
\* behaviours in which no header has been freed early or twice).
ExpiryPermanentStep ==
    \A t \in Threads, u \in Threads, b \in Blocks :
        (err = {} /\ err' = {} /\ LockFound(t, b) /\ wslot'[u].w.ptr = b
         /\ pc[u] # "done" /\ pc'[u] = "done") =>
            ret'[u] \notin {"locked", "valid"}

ExpiryPermanent == [][ExpiryPermanentStep]_vars

\* the weak_ptr variable s of thread t has released what it referenced and
\* has not yet acquired what it is assigned
Assigning(t, s) ==
    /\ pc[t] = "wa_acquire" \/ cont[t] = "wa_acquire"
    /\ s = AssignTarget(op[t])

\* the weak handles that reference block b
WeakHandlesOn(b) ==
    {h \in Threads \X WSlots : wslot[h[1]][h[2]].ptr = b /\ ~Assigning(h[1], h[2])}

HeaderPersistsStep ==
    \A b \in Blocks :
        (hdr[b] = "live" /\ hdr'[b] = "free") =>
            /\ strong[b] = PC(0, 0)
            /\ WeakHandlesOn(b)' = {}

\* C12 as stated: the header of a block is freed only in a step in which
\* the strong counter is PC(0,0) and no weak handle references the block,
\* so that a weak handle always references a live header.
HeaderPersists ==
    /\ [](\A b \in Blocks : WeakHandlesOn(b) # {} => hdr[b] = "live")
    /\ [][HeaderPersistsStep]_vars

\* the compare_exchange calls (rvalue desired) that have replaced expected
\* by a handle to block b and have not yet executed acquire( { 1, 1 } )
AssignedAhead(b) ==
    {t \in Threads :
        /\ xcp[t].ptr = b
        /\ \/ pc[t] = "cf_acq"
           \/ pc[t] \in {"rel", "delobj", "delhdr"} /\ cont[t] = "cf_acq"}

\* C13 as stated: in every state strong.c2 of a block is at least the
\* number of handles and cells that reference it.
UseCountAtLeastHolders ==
    \A b \in Blocks : hdr[b] = "live" => strong[b].c2 >= Holders(b)

\* C13: when no operation is in progress strong.c2 of a block is the number
\* of handles and cells that reference it; in every state strong.c2 plus
\* the number of compare_exchange calls that have replaced expected by a
\* handle to the block ahead of their acquire is at least that number; an
\* object that has been destroyed is referenced by no handle and no cell,
\* and when no operation is in progress an object whose block has an empty
\* observer lane is alive only if a handle or the cell references it.
UseCountIsHolders ==
    /\ \A b \in Blocks :
          hdr[b] = "live" =>
              /\ Settled => strong[b].c2 = Holders(b)
              /\ strong[b].c2 >= 0
              /\ strong[b].c2 + Cardinality(AssignedAhead(b)) >= Holders(b)
    /\ \A b \in Blocks : obj[b] # "alive" => Holders(b) = 0
    /\ Settled =>
          \A b \in Blocks :
              (obj[b] = "alive" /\ strong[b].c1 = 0) => Holders(b) > 0

\* a compare_exchange has replaced expected by a handle to the observed
\* block, which no unit of strong.c2 backs yet
ExpectedAheadOfAcquire ==
    \E t \in Threads :
        /\ pc[t] = "cf_acq"
        /\ slot[t].e = CP(0, xcp[t].ptr)
        /\ strong[xcp[t].ptr].c2 < Holders(xcp[t].ptr)

RetryStep ==
    \A t \in Threads :
        /\ (pc[t] = "cas" /\ Acts(t) /\ ret'[t] # "true") =>
              \/ cell # xcp[t]
              \/ IsWeakCas(op[t]) /\ pc'[t] = "casretry"
        /\ (pc[t] = "cas" /\ Acts(t) /\ pc'[t] \in {"cas", "reenter"}) =>
              xcp'[t] = cell /\ cell' = cell
        /\ (IsCas(op'[t]) /\ pc[t] \in {"idle", "reenter"} /\ Acts(t)
            /\ pc'[t] \in {"cas", "cas_acqdes"}) => xcp'[t] = cell'
        /\ (pc[t] \in {"cas", "cas_acqdes", "casretry"} /\ xcp[t] = cell
            /\ cell' # cell) =>
              \/ CasSuccessStep(t)
              \/ \E u \in Threads \ {t} : Acts(u)

\* an operation or a release of thread t completes
Completes(t) == pc[t] \notin {"idle", "done"} /\ pc'[t] \in {"idle", "done"}

\* C14: the threads are not inside operations for ever without one of the
\* operations completing (from every state in which a thread is inside an
\* operation, a step follows in which an operation completes), provided
\* that the threads inside operations keep taking steps and the weak CAS
\* does not fail spuriously for ever; a CAS of compare_exchange that does not succeed found the
\* cell's word different from the word the call read last, or failed
\* spuriously; the call reads the word again when its CAS fails, and
\* between that reading and the next CAS only a step of another thread
\* changes the word.
LockFree ==
    /\ []<>Settled \/ []<><<\E t \in Threads : Completes(t)>>_vars
    /\ [][RetryStep]_vars

\* a compare_exchange is at its CAS while another thread has changed the
\* counter of the cell's word: the CAS will fail and be repeated
CasWillRepeat ==
    \E t \in Threads :
        /\ IsCas(op[t]) /\ pc[t] = "cas"
        /\ cell # xcp[t] /\ cell.ptr = eptr[t]

\* the blocks that the handles and the locals of thread t name
Participants(t) ==
    {slot[t].e.ptr, slot[t].d.ptr, wslot[t].w.ptr, xcp[t].ptr, eptr[t], rel[t].b}
        \ {NULL}

NullState ==
    /\ "null_dereference" \notin err
    /\ \A t \in Threads :
          /\ pc[t] \in {"ld_acq", "unhold", "cf_acq"} => xcp[t].ptr # NULL
          /\ pc[t] \in {"rel", "delobj", "delhdr"} => rel[t].b # NULL
          /\ (LoadReturned(t) /\ xcp[t].ptr = NULL) => slot[t].e = NullCP

NullStep ==
    /\ \A b \in Blocks :
          (strong'[b] # strong[b] \/ weak'[b] # weak[b]) =>
              \E t \in Threads : Acts(t) /\ b \in Participants(t) \cup Participants(t)'
    /\ \A t \in Threads :
          (Acts(t) /\ Participants(t) \cup Participants(t)' = {}) =>
              /\ strong' = strong /\ weak' = weak /\ obj' = obj /\ hdr' = hdr
              /\ pc'[t] \notin {"rel", "delobj", "delhdr", "ld_acq", "cf_acq", "unhold"}

\* C15: no header is accessed through a null pointer: a thread is about to
\* acquire, unhold or release only on a non-null block, load of an empty
\* cell returns the empty handle, and a step changes the strong or weak
\* counter of a block only if a handle or a local counted pointer of the
\* stepping thread names that block; an operation all of whose handles and
\* observed pointers are empty changes no counter and starts no release.
NullShortCircuit == []NullState /\ [][NullStep]_vars

\* a compare_exchange with empty expected has succeeded on an empty cell
\* and has left it empty
CasOnEmptySucceeded ==
    \E t \in Threads :
        /\ pc[t] = "done" /\ IsCas(op[t]) /\ ret[t] = "true"
        /\ eptr[t] = NULL /\ slot[t].e.ptr = NULL /\ slot[t].d.ptr = NULL
        /\ cell.ptr = NULL

\* the step is the write of thread t to the cell: the exchange of store or
\* exchange, or the successful CAS of compare_exchange
StoreRvalueStep(t) ==
    nops' # nops /\ pc' = pc /\ op' = op /\ slot'[t] # slot[t]
ExchangeRvalueStep(t) == op[t] # "xchg_r" /\ op'[t] = "xchg_r"
ConstWriteStep(t) == pc[t] = "write" /\ Acts(t)
WriteStep(t) ==
    \/ StoreRvalueStep(t)
    \/ ExchangeRvalueStep(t)
    \/ ConstWriteStep(t)
    \/ CasSuccessStep(t)

\* a write of thread t installs a counted pointer whose local counter is 0
WriteZeroesStep == \A t \in Threads : WriteStep(t) => cell'.ctr = 0

\* C20: every write that replaces the pointer of the cell (store, exchange,
\* successful compare_exchange, with rvalue or const-reference desired)
\* installs a counted pointer whose local counter is 0, whatever handle is
\* passed in.
WriteZeroesCounter == [][WriteZeroesStep]_vars

WriteInstallsStep ==
    /\ \A t \in Threads :
          /\ (ConstWriteStep(t) \/ (CasSuccessStep(t) /\ IsConstCas(op[t]))) =>
                cell' = CP(0, slot[t].d.ptr)
          /\ (StoreRvalueStep(t) \/ ExchangeRvalueStep(t)
              \/ (CasSuccessStep(t) /\ ~IsConstCas(op[t]))) =>
                cell' = slot[t].d
    /\ cell' # cell =>
          \/ \E t \in Threads : WriteStep(t)
          \/ cell' = CPFetchAdd(cell, 1)
          \/ \E t \in Threads : pc[t] = "norm" /\ Acts(t) /\ cell' = CP(0, cell.ptr)
          \/ cellAlive /\ ~cellAlive'

\* What the writes of the code install: a write with desired passed by
\* const reference (store, exchange, successful compare_exchange) installs
\* the pointer of desired with local
\* counter 0; a write with desired passed as rvalue installs the counted
\* pointer of desired as it is, with the local counter the handle carries
\* (0 for a handle made by construction, copy or load, the counter of the
\* former cell content for a handle returned by exchange or taken over by
\* compare_exchange, -1 for an expected that a successful compare_exchange
\* has compensated); apart from the writes the cell changes only by the
\* increment of an enter, by normalization and by its destruction.
WriteInstalls == [][WriteInstallsStep]_vars

\* an exchange with rvalue desired has installed a handle that carried a
\* negative local counter
ExchangeInstalledCounter ==
    \E t \in Threads :
        /\ pc[t] = "done" /\ op[t] = "xchg_r"
        /\ cell.ptr # NULL /\ cell.ctr < 0

RECURSIVE SumOver(_, _)
\* the sum of f over the finite set S
SumOver(f, S) ==
    IF S = {} THEN 0
    ELSE LET x == CHOOSE y \in S : TRUE IN f[x] + SumOver(f, S \ {x})

\* the local counters of the cell and of the handles that reference block
\* b, a handle that is being released counting until its fetch_sub
CounterSum(b) ==
    (IF CellHolds(b) THEN cell.ctr ELSE 0)
    + SumOver([h \in Threads \X Slots |-> slot[h[1]][h[2]].ctr], HandlesOn(b))
    + SumOver([t \in Threads |-> rel[t].cnt.c1],
              {t \in Threads : PendingRelease(t, b)})

\* the readers that have entered the cell observing block b and have not
\* yet taken their credit
ReadersInWindow(b) == {t \in Threads : InWindow(t, b)}

\* C17 as stated, outside the two steps of a normalization: strong.c1 of a
\* block is the sum of the local counters of the cell and of the handles
\* that reference it, minus the number of readers in their window.
ObserverBalance ==
    \A b \in Blocks :
        (hdr[b] = "live" /\ \A t \in Threads : pc[t] # "unhold") =>
            strong[b].c1 = CounterSum(b) - Cardinality(ReadersInWindow(b))

\* C18 as stated: the unhold that follows a successful normalization CAS
\* decreases strong.c1 of the block by the counter taken out of the cell,
\* which is at least the threshold, and restores the balance of the
\* observer lane.
NormalizationStep ==
    \A t \in Threads :
        (pc[t] = "unhold" /\ Acts(t)) =>
            /\ strong'[xcp[t].ptr].c1 <= strong[xcp[t].ptr].c1 - NormalizeThreshold
            /\ strong'[xcp[t].ptr].c2 = strong[xcp[t].ptr].c2

NormalizationUnholds == [][NormalizationStep]_vars

\* the margin allowed above the threshold
Margin == 2 * NumThreads

\* C19 as stated: the local counter of the cell stays within a margin
\* bounded by the number of threads above the normalization threshold, and
\* does not become negative by wrapping.
LocalCounterBounded ==
    cellAlive => cell.ctr >= 0 /\ cell.ctr <= NormalizeThreshold + Margin

\* C16 as stated: the storage of a shareable is freed once, after the
\* destructor of the object has completed, nothing of the block is
\* accessed after that, and the assertions of shareable hold.
ShareableFreedOnce ==
    err \cap {"header_freed_twice", "header_freed_before_object",
              "header_use_after_free", "object_destroyed_twice",
              "assertion_failed"} = {}

(***************************************************************************)
(* The local counter of the cell at rest.                                  *)
(***************************************************************************)
\* C21 as stated: when no operation is in progress, the local counter of
\* the cell is not negative.
CellCounterNonNegative == (Settled /\ cellAlive) => cell.ctr >= 0

(***************************************************************************)
(* Destruction of handles and of the cell.                                 *)
(***************************************************************************)
\* the counter old without the contribution cnt, lane by lane
WithoutLanes(old, cnt) == PC(old.c1 - cnt.c1, old.c2 - cnt.c2)

\* the step is the destruction of the handle in slot s of thread t
DropStep(t, s) ==
    /\ pc[t] = "idle" /\ cell' = cell /\ nops' = nops
    /\ slot[t][s].ptr # NULL
    /\ slot' = SetSlot(t, s, NullCP)

\* the step is the fetch_sub of a release that a destructor or an
\* operation of thread t has started
PendingReleaseStep(t) == pc[t] = "rel" /\ Acts(t)

\* the step takes cnt from the strong counter of block b alone, and
\* thread t goes on to destroy the object exactly if nothing is left
ReleasedBy(t, b, cnt) ==
    /\ strong' = [strong EXCEPT ![b] = WithoutLanes(strong[b], cnt)]
    /\ (pc'[t] = "delobj") <=> (strong'[b] = PC(0, 0))
    /\ pc'[t] = "delobj" => rel'[t].b = b

DestructionStep ==
    /\ \A t \in Threads :
          /\ \A s \in Slots :
                DropStep(t, s) => ReleasedBy(t, slot[t][s].ptr, PC(slot[t][s].ctr, 1))
          /\ (cellAlive /\ ~cellAlive' /\ Acts(t)) =>
                /\ strong' = strong
                /\ IF cell.ptr = NULL THEN pc'[t] = "idle"
                   ELSE pc'[t] = "rel" /\ rel'[t] = [b |-> cell.ptr, cnt |-> PC(cell.ctr, 1)]
          /\ PendingReleaseStep(t) => ReleasedBy(t, rel[t].b, rel[t].cnt)
          /\ (pc[t] = "delobj" /\ Acts(t)) =>
                obj[rel[t].b] = "alive" /\ obj'[rel[t].b] = "destroyed"
    /\ \A b \in Blocks :
          (obj[b] = "alive" /\ obj'[b] # "alive") =>
              \E t \in Threads : pc[t] = "delobj" /\ rel[t].b = b /\ Acts(t)

\* C22: the destruction of a handle (c, p), p not null, is one fetch_sub
\* of PC(c, 1) on p; the destruction of the cell with content (c, p) starts
\* one release of PC(c, 1) on p and no release if p is null; the fetch_sub
\* of a release takes its amount from both lanes of the strong counter of
\* that block and of no other; the releasing thread destroys the object if
\* and only if the resulting counter is PC(0, 0), and objects are destroyed
\* by such threads only.
DestructionReleases == [][DestructionStep]_vars

\* the release of a handle with negative local counter has brought the
\* strong counter to PC(0, 0), after the cell has been destroyed
NegativeCounterReleased ==
    \E t \in Threads :
        /\ pc[t] = "delobj" /\ rel[t].cnt.c1 < 0
        /\ strong[rel[t].b] = PC(0, 0)
        /\ ~cellAlive

(***************************************************************************)
(* The account of the observer lane through a compare_exchange call.       *)
(***************************************************************************)
\* what the local counters of block b, less the readers in their window,
\* exceed strong.c1 by
Balance(b) == CounterSum(b) - Cardinality(ReadersInWindow(b)) - strong[b].c1

\* in this step thread t, inside compare_exchange, gets the result of an
\* _enter
CasEnterReturns(t) ==
    /\ IsCas(op'[t]) /\ Acts(t)
    /\ pc[t] \in {"idle", "reenter", "norm", "unhold"}
    /\ pc'[t] \notin {"norm", "unhold"}

CasBalanceStep ==
    \A t \in Threads :
        \* expected's counter is decremented by one exactly when an enter
        \* of the call has observed expected's block
        /\ (IsCas(op'[t]) /\ Acts(t) /\ slot'[t].e.ptr = slot[t].e.ptr) =>
              slot'[t].e.ctr =
                  IF CasEnterReturns(t) /\ xcp'[t].ptr = eptr'[t]
                  THEN slot[t].e.ctr - 1 ELSE slot[t].e.ctr
        /\ (CasEnterReturns(t) /\ xcp'[t].ptr = eptr'[t]) =>
              slot'[t].e = CP(slot[t].e.ctr - 1, eptr'[t])
        \* the steps of the call leave the account of expected's block as
        \* it is; a normalization inside the call takes the counter out of
        \* the cell in one step and out of strong.c1, where it is at least
        \* the threshold, in the next
        /\ (IsCas(op'[t]) /\ Acts(t)) =>
              \A b \in Blocks :
                  (b = eptr'[t] /\ hdr[b] = "live" /\ hdr'[b] = "live") =>
                      IF pc'[t] = "unhold" /\ b = xcp[t].ptr
                      THEN Balance(b)' = Balance(b) - xcp[t].ctr
                      ELSE IF pc[t] = "unhold" /\ b = xcp[t].ptr
                      THEN Balance(b)' >= Balance(b) + NormalizeThreshold
                      ELSE Balance(b)' = Balance(b)

\* C23 as stated: inside a compare_exchange call every enter that observes
\* expected's block is matched by one decrement of expected's local
\* counter, and the call leaves the sum of the local counters of expected's
\* block less its strong.c1 as it found it.
CasKeepsBalance == [][CasBalanceStep]_vars

(***************************************************************************)
(* compare_exchange with desired passed as rvalue: what the call leaves in *)
(* desired and in expected.                                                *)
(***************************************************************************)
IsRvalueCas(o) == IsCas(o) /\ ~IsConstCas(o)

RvalueCasStep ==
    \A t \in Threads :
        (IsRvalueCas(op'[t]) /\ Acts(t)) =>
            \* the successful CAS hands the word it replaced to desired
            /\ CasSuccessStep(t) =>
                  /\ slot'[t].d = cell /\ cell' = slot[t].d
                  /\ slot'[t].e = slot[t].e /\ slot[t].e.ptr = eptr[t]
                  /\ pc'[t] = "done" /\ strong' = strong
            \* no other step of the call touches desired
            /\ ~CasSuccessStep(t) => slot'[t].d = slot[t].d
            \* expected changes its block only when the call fails
            /\ slot'[t].e.ptr # slot[t].e.ptr => ret'[t] = "false"

RvalueCasReturned ==
    \A t \in Threads :
        (IsRvalueCas(op[t]) /\ pc[t] = "done") =>
            /\ ret[t] = "true" =>
                  /\ slot[t].d = xcp[t] /\ slot[t].e.ptr = eptr[t]
                  /\ slot[t].d.ptr = eptr[t]
            /\ ret[t] = "false" =>
                  /\ slot[t].e = CP(0, xcp[t].ptr) /\ xcp[t].ptr # eptr[t]
                  /\ slot[t].d.ptr # NULL =>
                        /\ hdr[slot[t].d.ptr] = "live" /\ obj[slot[t].d.ptr] = "alive"
                        /\ strong[slot[t].d.ptr].c2 >= 1

\* C24: compare_exchange with rvalue desired that returns true leaves in
\* desired the counted pointer that its CAS replaced in the cell, block and
\* local counter, and expected on the block it had at the call; no other
\* step of the call changes desired, so a call that returns false leaves
\* desired as it was, its block alive and counted; expected changes its
\* block only in a call that returns false.
RvalueCasHandles == [][RvalueCasStep]_vars /\ []RvalueCasReturned

\* a compare_exchange with rvalue desired has returned true and desired
\* carries the former content of the cell with a positive local counter
DesiredTookOverCounter ==
    \E t \in Threads :
        /\ IsRvalueCas(op[t]) /\ pc[t] = "done" /\ ret[t] = "true"
        /\ slot[t].d.ptr # NULL /\ slot[t].d.ctr > 1
        /\ \E u \in Threads \ {t} :
              IsRvalueCas(op[u]) /\ pc[u] = "done" /\ ret[u] = "false"
              /\ slot[u].d.ptr # NULL

(***************************************************************************)
(* The first step of compare_exchange.                                     *)
(***************************************************************************)
\* thread t calls compare_exchange in this step, no other operation being
\* in progress, on a cell that holds expected's block with local counter 0
CalmCasCall(t) ==
    /\ op'[t] # op[t] /\ IsCas(op'[t])
    /\ Settled
    /\ cell = CP(0, slot[t].e.ptr) /\ slot[t].e.ctr = 0

OptimisticStep ==
    \A t \in Threads :
        CalmCasCall(t) =>
            /\ cell'.ptr = slot[t].d.ptr /\ ret'[t] = "true"
            /\ slot'[t].e = slot[t].e

\* C25 as stated: a compare_exchange called with no operation in progress
\* on a cell holding expected's block with local counter 0 succeeds with
\* its first access to the cell, a CAS, with no increment of the local
\* counter of the cell, and leaves the local counter of expected at 0.
OptimisticFirstAttempt == [][OptimisticStep]_vars

(***************************************************************************)
(* The hand-off of the header between _delete_header and _delete_object.   *)
(***************************************************************************)
\* thread t executes _delete_header in this step
DeleteHeaderStep(t) == pc[t] \in {"sh_delhdr", "sh_delhdr_obj"} /\ Acts(t)

HandOffStep ==
    \A t \in Threads :
        /\ DeleteHeaderStep(t) =>
              LET old == state[rel[t].b]
              IN  /\ state'[rel[t].b] = old \cup {"destroy_header"}
                  /\ IF "destroying_object" \in old
                     THEN hdr' = hdr
                     ELSE hdr[rel[t].b] = "live" /\ hdr'[rel[t].b] = "free"
        \* the thread that runs _delete_object takes the header over when
        \* it finds destroy_header set, frees it after the destructor, and
        \* has then finished with the block
        /\ (pc[t] = "sh_xor" /\ Acts(t)) =>
              (pc'[t] = "sh_delhdr_obj") = ("destroy_header" \in state[rel[t].b])
        /\ (pc[t] = "sh_delhdr_obj" /\ Acts(t)) =>
              /\ obj[rel[t].b] = "destroyed"
              /\ hdr[rel[t].b] = "live" /\ hdr'[rel[t].b] = "free"
              /\ pc'[t] = "idle"

\* C26 as stated: _delete_header called while destroying_object is set
\* sets destroy_header and frees nothing; the thread running
\* _delete_object then frees the block, once, after the destructor of the
\* object has completed, and is done with the block; _delete_header called
\* while destroying_object is clear frees the block itself.
HandOff == [][HandOffStep]_vars

\* C27 as stated: the assertions of shareable hold: _delete_object starts
\* with neither destroying_object nor object_destroyed set, flips the state
\* with destroying_object set and object_destroyed clear, and
\* _delete_header is entered with one of the two set.
ShareableAssertions == "assertion_failed" \notin err

(***************************************************************************)
(* The assertions of the destructors of the headers.                       *)
(***************************************************************************)
HeaderDestructorStep ==
    \A b \in Blocks :
        (hdr[b] = "live" /\ hdr'[b] = "free") =>
            strong[b] = PC(0, 0) /\ weak[b] = PC(0, 0)

\* C28 as stated: when the destructor of a header runs, the strong counter
\* and the weak counter of the block are both PC(0, 0).
HeaderDestructorAssertions == [][HeaderDestructorStep]_vars

(***************************************************************************)
(* wait                                                                    *)
(***************************************************************************)
\* C29 as stated: wait( old ) leaves the cell and returns only when one of
\* its enters has observed a pointer in the cell that differs from old's
\* block; while the cell holds old's block it keeps waiting.
WaitsWhileEqual ==
    \A t \in Threads :
        (op[t] = "wait" /\ pc[t] = "w_leave") => xcp[t].ptr # slot[t].d.ptr

\* C30 as stated: when no operation is in progress, strong.c1 of every
\* block is the sum of the local counters of the cell and of the handles
\* that reference it, whatever enters, leaves and re-enters of wait and
\* writes of the cell have happened, and the object of a block that
\* nothing references has been destroyed.
LeaveKeepsBalance ==
    Quiescent =>
        \A b \in Blocks :
            /\ hdr[b] = "live" => strong[b].c1 = CounterSum(b)
            /\ obj[b] = "alive" => HandlesOn(b) # {} \/ CellHolds(b)

(***************************************************************************)
(* weak_count                                                              *)
(***************************************************************************)
\* sptr_header_base::weak_count: the use lane of weak_references_
WeakCount(b) == weak[b].c2

\* a strong reference to block b exists
HasStrong(b) == strong[b].c2 # 0

\* C31: weak_count() of a block is the number of weak handles that
\* reference it plus one while a strong reference to the block exists, and
\* the number of weak handles once none exists.
WeakCountImplicit ==
    \A b \in Blocks :
        hdr[b] = "live" =>
            WeakCount(b) = Cardinality(WeakHandlesOn(b))
                             + (IF HasStrong(b) THEN 1 ELSE 0)

\* What weak_count() is in the code: the number of weak handles that
\* reference the block, whether or not a strong reference to the block
\* exists; the strong references hold no weak reference.
WeakCountIsHandles ==
    \A b \in Blocks :
        hdr[b] = "live" => WeakCount(b) = Cardinality(WeakHandlesOn(b))

\* weak handles have been made and dropped, and one outlives the last
\* strong reference
WeakCountAfterLastStrong ==
    \E b \in Blocks :
        /\ hdr[b] = "live"
        /\ obj[b] = "destroyed"
        /\ ~HasStrong(b)
        /\ WeakCount(b) = 1
        /\ Cardinality(WeakHandlesOn(b)) = 1

(***************************************************************************)
(* fetch_transfer                                                          *)
(***************************************************************************)
TransferStep ==
    \A t \in Threads :
        (pc[t] = "idle" /\ op'[t] = "fetch_transfer") =>
            /\ strong'[1] = PC(strong[1].c1 - net'[t], strong[1].c2 + net'[t])
            /\ cur'[t] = strong[1]

\* C32 as stated: fetch_transfer( n ) is one step that takes the counter
\* from PC(c1, c2) to PC(c1 - n, c2 + n), each lane on its own, for any n
\* and any counter, also when c2 + n leaves the range of the lane, and
\* returns the counter it found.
TransferIsLanewise == [][TransferStep]_vars

(***************************************************************************)
(* fetch_add and fetch_sub of the paired counter                           *)
(***************************************************************************)
FetchStep ==
    \A t \in Threads :
        (pc[t] = "idle" /\ op'[t] \in {"fetch_add", "fetch_sub"}) =>
            LET arg == rel'[t].cnt
                old == strong[1]
                new == strong'[1]
            IN  /\ new = IF op'[t] = "fetch_add" THEN PlusAssign(old, arg)
                                                 ELSE MinusAssign(old, arg)
                /\ arg.c2 = 0 => new.c2 = old.c2
                /\ arg.c1 = 0 => new.c1 = old.c1

\* C33 as stated: fetch_add( arg ) and fetch_sub( arg ) take the counter
\* to the sum or difference lane by lane, no carry or borrow passing from
\* c2 to c1, for every counter and argument; an amount PC(n, 0) (hold,
\* unhold) leaves c2 and an amount PC(0, n) (acquire) leaves c1 as it was.
FetchIsLanewise == [][FetchStep]_vars

(***************************************************************************)
(* The use lane in the protocol                                            *)
(***************************************************************************)
\* C38: in every state of the protocol the use lane of the strong and of
\* the weak counter of every block holds a count: no release has taken
\* more from c2 than it held, so c2 has not wrapped below zero and no
\* borrow has reached c1.
UseLaneNeverBorrows ==
    \A b \in Blocks : strong[b].c2 >= 0 /\ weak[b].c2 >= 0

(***************************************************************************)
(* Arithmetic of paired_counter                                            *)
(***************************************************************************)
ArithStep ==
    \A t \in Threads : pc[t] = "arith" => cur'[t] = cur[t]

\* C34 as stated: ( a + b ) - b is a for all paired counters a and b, with
\* the right operands taken by const reference and with the right operands
\* taken as rvalues.
PlusMinusCancels == [][ArithStep]_vars

(***************************************************************************)
(* The compare-exchange of one lane                                        *)
(***************************************************************************)
\* the call of thread t returns in this step
LaneCasReturns(t) ==
    /\ op[t] \in CounterCasOps
    /\ pc[t] \in {"c_load", "c_cas"}
    /\ pc'[t] = "done"

\* the lane the overload does not address
Other(o, x) == IF IsC1(o) THEN x.c2 ELSE x.c1

\* expected as the caller holds it: a number, or the target lane of its
\* paired_counter
ExpectedLane(t) ==
    IF IsPairOverload(op[t]) THEN Target(op[t], rel[t].cnt) ELSE eptr[t]

LaneCasStep ==
    \A t \in Threads :
        LaneCasReturns(t) =>
            LET o == op[t]
                old == strong[1]
                new == strong'[1]
            IN  /\ ret'[t] = "true" =>
                      /\ Target(o, new) = net[t]
                      /\ Other(o, new) = Other(o, old)
                /\ ret'[t] = "false" =>
                      /\ Target(o, old) # ExpectedLane(t)
                      /\ new = old
                      /\ ExpectedLane(t)' = Target(o, old)

\* C35 as stated: a compare-exchange of one lane that returns true has set
\* its lane to desired and left the other lane as it was immediately
\* before; it returns false only if its lane differed from expected, and
\* then the counter is unchanged and expected holds the lane observed;
\* for the weak and the strong variants and every overload.
LaneCasSetsTarget == [][LaneCasStep]_vars

(***************************************************************************)
(* The strong compare-exchange of one lane with a paired_counter expected  *)
(***************************************************************************)
\* thread t is at the compare_exchange_strong of the loop of
\* compare_exchange_strong_c1/_c2( paired_counter& expected, ... )
StrongPairCas(t) ==
    /\ op[t] \in {"strong_c1_pair", "strong_c2_pair"}
    /\ pc[t] = "c_cas"

\* the pass of the loop that thread t is about to execute changes
\* something: the counter, expected, or the position of the thread
PassAdvances == \A t \in Threads : StrongPairCas(t) => ENABLED <<CounterCasPair(t)>>_vars

StrongPairCasReturnStep ==
    \A t \in Threads :
        (StrongPairCas(t) /\ pc'[t] = "done") =>
            ret'[t] = IF Target(op[t], strong[1]) = Target(op[t], rel[t].cnt)
                      THEN "true" ELSE "false"

\* C36 as stated: compare_exchange_strong_c1/_c2 with a paired_counter
\* expected terminate for every counter and every expected when no other
\* thread modifies the counter: every pass of their loop advances the
\* call, and the call returns true if the target lane of the counter
\* equals that of expected, also when the other lane differs, and false
\* otherwise.
StrongPairCasTerminates == []PassAdvances /\ [][StrongPairCasReturnStep]_vars

(***************************************************************************)
(* Arithmetic of the counted pointer                                       *)
(***************************************************************************)
Int16 == (0 - 32768)..32767
\* y is x + n in the 16-bit lane
SumMod16(y, x, n) == y \in Int16 /\ (y - x - n) % 65536 = 0

\* thread t calls an operation of the counted pointer in this step
CountedPtrCall(t) == pc[t] = "idle" /\ pc'[t] = "done"

\* fetch_add, fetch_sub and the increment and decrement operators
AddSubOps ==
    {"cp_fetch_add", "cp_fetch_sub", "pre_inc", "post_inc", "pre_dec", "post_dec"}

CountedPtrFetchStep ==
    \A t \in Threads :
        (CountedPtrCall(t) /\ op'[t] \in AddSubOps) =>
            /\ cell'.ptr = cell.ptr
            /\ xcp'[t] = cell
            /\ op'[t] = "cp_fetch_add" => SumMod16(cell'.ctr, cell.ctr, net'[t])
            /\ op'[t] = "cp_fetch_sub" => SumMod16(cell'.ctr, cell.ctr, 0 - net'[t])
            /\ op'[t] \in {"pre_inc", "post_inc"} => SumMod16(cell'.ctr, cell.ctr, 1)
            /\ op'[t] \in {"pre_dec", "post_dec"} => SumMod16(cell'.ctr, cell.ctr, 0 - 1)

ReturnsNewCounter(O) ==
    \A t \in Threads :
        (CountedPtrCall(t) /\ op'[t] \in O) => net'[t] = cell'.ctr

\* C37 as stated: fetch_add( n ) and fetch_sub( n ) add n to, or subtract
\* it from, the counter modulo 2^16 and leave the pointer unchanged, also
\* when the counter wraps; the increment and decrement operators return
\* the new counter.
CountedPtrArithmetic ==
    /\ [][CountedPtrFetchStep]_vars
    /\ [][ReturnsNewCounter({"pre_inc", "post_inc", "pre_dec", "post_dec"})]_vars

ReturnsOldCounter(O) ==
    \A t \in Threads :
        (CountedPtrCall(t) /\ op'[t] \in O) => net'[t] = cell.ctr

\* C37, amended: fetch_add( n ) and fetch_sub( n ) add n to, or subtract it
\* from, the counter modulo 2^16 and leave the pointer unchanged, also when
\* the counter wraps; the prefix increment and decrement operators return
\* the new counter, the postfix operators the counter before the
\* operation.
CountedPtrArithmeticPrefix ==
    /\ [][CountedPtrFetchStep]_vars
    /\ [][ReturnsNewCounter({"pre_inc", "pre_dec"})]_vars
    /\ [][ReturnsOldCounter({"post_inc", "post_dec"})]_vars

\* ++p on a counter at 32767 has returned -32768, the pointer in place
IncrementWrapped ==
    \E t \in Threads :
        /\ pc[t] = "done"
        /\ op[t] = "pre_inc"
        /\ xcp[t].ctr = 32767
        /\ xcp[t].ptr # NULL
        /\ net[t] = 0 - 32768
        /\ cell = CP(0 - 32768, xcp[t].ptr)
====
